---- MODULE Spec2Model ----
(***************************************************************************)
(* Message broker of agent-comm-hub                                        *)
(* (internal/services/messaging/message_broker.go).                        *)
(*                                                                         *)
(* Concurrent request workers call SendMessage; each call is a sequence of *)
(* Redis round trips (PUBLISH, then LPUSH / LTRIM / EXPIRE on the sender's *)
(* history key and, for a direct send, on the recipient's), any of which   *)
(* may fail.  Every Redis command is atomic by itself; nothing makes two   *)
(* commands of one call atomic together.  GetMessageHistory is one LRANGE. *)
(*                                                                         *)
(* The run starts after 99 earlier broadcast sends of agent a1, so that    *)
(* the sends of the run take a1's history to and past messageHistoryMax.   *)
(***************************************************************************)
EXTENDS Integers, Sequences, FiniteSets, TLC

(* ------------------------------ constants ------------------------------ *)

directMessageChannelPrefix == "agent:message:"
broadcastChannel == "agent:broadcast"
messageHistoryPrefix == "agent:history:"
messageHistoryMax == 100

(* 24 * time.Hour, in seconds. *)
messageHistoryTTL == 24 * 3600

(* The clock `now` counts milliseconds: two readings of time.Now by two     *)
(* calls differ, by far less than a second.  Expiry is kept in whole        *)
(* seconds, the unit of EXPIRE.                                             *)
Second == 1000
Seconds(t) == t \div Second

MessageTypeMessage == "message"

(* Bound of the model: the number of Redis commands that fail in a run. *)
MaxFailures == 1

(* Ids the registry has generated (uuid strings; never "broadcast"). *)
Agents == {"a1", "a2"}

(* Request workers that run concurrently; each serves one send request    *)
(* (net/http runs every request in a goroutine of its own).               *)
Procs == {"w1", "w2"}

(* The agent whose requests a worker serves (the :id of the request path). *)
SenderOf(p) == IF p = "w1" THEN "a1" ELSE "a2"

(* Values of req.ToAgent. *)
Recipients == Agents \cup {"broadcast"}

(* The identifiers a history key is built from. *)
HistoryIds == Agents \cup {"broadcast"}

(* Values of the limit argument of GetMessageHistory. *)
Limits == {0, 2, messageHistoryMax, messageHistoryMax + 1}

Nil == "nil"

(* The expiry of a key that carries none (a key LPUSH has just created). *)
NoExpiry == 0 - 1

(* ------------------------------ registry records ----------------------- *)
(* Agent registry (internal/services/registry/agent_registry.go): an agent *)
(* is a JSON value under agent:<id>, its id a member of the set            *)
(* agents:index, its last heartbeat a value under agent:heartbeat:<id>.    *)

agentKeyPrefix == "agent:"
agentIndexKey == "agents:index"

(* 5 * time.Minute, in seconds. *)
agentHeartbeatTTL == 5 * 60

StatusOnline == "online"
StatusBusy == "busy"

ErrAgentNotFound == "agent not found"

(* The id uuid.New gives Register: an id no agent has had. *)
NewAgentIds == {"a3"}

(* The ids the registry is asked about. *)
RegIds == Agents \cup NewAgentIds \cup {"never-registered"}

AgentKey(agentID) == agentKeyPrefix \o agentID
HeartbeatKey(agentID) == agentKeyPrefix \o "heartbeat:" \o agentID
RegKeys == {AgentKey(a) : a \in RegIds} \cup {HeartbeatKey(a) : a \in RegIds}

(* models.Agent; Type, Capabilities, Endpoint and Metadata travel as Name   *)
(* does and are left out.                                                   *)
NewAgent(id, name, status, created, seen) ==
    [ID |-> id, Name |-> name, Status |-> status, CreatedAt |-> created,
     LastSeen |-> seen]

(* json.Marshal of an Agent: the json field names, none of them omitempty. *)
MarshalAgent(agent) ==
    [id |-> agent.ID, name |-> agent.Name, status |-> agent.Status,
     created_at |-> agent.CreatedAt, last_seen |-> agent.LastSeen]

(* json.Unmarshal into an Agent. *)
UnmarshalAgent(data) ==
    NewAgent(data.id, data.name, data.status, data.created_at, data.last_seen)

(* A nil *models.Agent. *)
NoAgent == NewAgent(Nil, Nil, Nil, 0, 0)

(* redis.Nil: the key does not exist. *)
NoValue == [nil |-> TRUE]

(* A key's value and the second at which it expires. *)
Stored(val, exp) == [val |-> val, exp |-> exp]

(* The registry when the run starts: every agent of Agents registered long  *)
(* ago, its last heartbeat expired.                                         *)
InitialRegistry ==
    [kv |-> [k \in RegKeys |->
                IF \E a \in Agents : k = AgentKey(a)
                THEN LET a == CHOOSE b \in Agents : k = AgentKey(b)
                     IN  Stored(MarshalAgent(NewAgent(a, "n0", StatusOnline, 0, 0)), NoExpiry)
                ELSE NoValue],
     index |-> Agents]

(* Clients of the registry that run concurrently (the handlers of           *)
(* concurrent HTTP requests).                                               *)
RegProcs == {"r1", "r2"}

(* models.UpdateAgentRequest with no field set. *)
NoUpdate == [Name |-> "", Status |-> ""]

(* A registry client that has made no call. *)
NoCall == [op |-> Nil, id |-> Nil, at |-> "idle", agent |-> NoAgent, req |-> NoUpdate,
           err |-> Nil]

VARIABLES
    pc,         \* per worker: where its SendMessage call stands
    cur,        \* per worker: the Message its current (or last) call built
    chan,       \* per worker: the channel its current (or last) call resolved
    ret,        \* per worker: what its last finished call returned
    log,        \* per worker: the Redis commands its current (or last) call issued
    published,  \* transport: the (channel, data) pairs published so far
    hist,       \* store: the list under agent:history:<id>, newest first
    ttl,        \* store: the second at which the history key expires, or NoExpiry
    pushed,     \* history: ids of every entry ever pushed under the key, newest first
    nextId,     \* the next fresh message id (uuid.New)
    now,        \* the clock (time.Now)
    failures,   \* number of Redis commands that have failed so far
    lastRead,   \* the response of a GetMessageHistory call that has just returned
    http,       \* per worker: the request it serves, as it came in, and an early rejection
    subs,       \* per subscriber: the subscription Subscribe returned, and its state
    feed,       \* per subscriber: the messages the transport has delivered to it
    reg,        \* store: the registry's keys (agent:<id>, agents:index, agent:heartbeat:<id>)
    rcall       \* per registry client: where its AgentRegistry call stands

vars == <<pc, cur, chan, ret, log, published, hist, ttl, pushed, nextId, now,
          failures, lastRead, http, subs, feed, reg, rcall>>

(* ------------------------------ messages ------------------------------- *)

(* models.Message as SendMessage builds it. *)
NewMessage(id, from, to, type, payload, corr, ts, t) ==
    [ID |-> id, FromAgent |-> from, ToAgent |-> to, Type |-> type,
     Payload |-> payload, CorrelationID |-> corr, Timestamp |-> ts, TTL |-> t]

(* Marshal with correlation_id left out of the object. *)
Marshal_NoCorrelation(msg) ==
    LET always == [id |-> msg.ID, from_agent |-> msg.FromAgent, to_agent |-> msg.ToAgent,
                   type |-> msg.Type, payload |-> msg.Payload,
                   timestamp |-> msg.Timestamp]
    IN  IF msg.TTL = 0 THEN always ELSE always @@ ("ttl" :> msg.TTL)

(* json.Marshal of a Message: the json field names; correlation_id and ttl *)
(* are omitempty: the object has the field only when its value is not the  *)
(* zero value.                                                             *)
Marshal(msg) ==
    LET always == [id |-> msg.ID, from_agent |-> msg.FromAgent, to_agent |-> msg.ToAgent,
                   type |-> msg.Type, payload |-> msg.Payload,
                   timestamp |-> msg.Timestamp]
        corr   == IF msg.CorrelationID = "" THEN always
                  ELSE always @@ ("correlation_id" :> msg.CorrelationID)
    IN  IF msg.TTL = 0 THEN corr ELSE corr @@ ("ttl" :> msg.TTL)

(* Whether json.Unmarshal accepts the stored bytes. *)
CanUnmarshal(data) == "id" \in DOMAIN data

(* json.Unmarshal into a Message: an omitted field keeps its zero value. *)
Unmarshal(data) ==
    [ID |-> data.id, FromAgent |-> data.from_agent, ToAgent |-> data.to_agent,
     Type |-> data.type, Payload |-> data.payload,
     CorrelationID |-> IF "correlation_id" \in DOMAIN data THEN data.correlation_id
                       ELSE "",
     Timestamp |-> data.timestamp,
     TTL |-> IF "ttl" \in DOMAIN data THEN data.ttl ELSE 0]

(* ------------------------------ Redis ---------------------------------- *)

Min(a, b) == IF a < b THEN a ELSE b
Max(a, b) == IF a > b THEN a ELSE b

(* LPUSH key value: the value becomes the head of the list. *)
LPushOp(list, data) == <<data>> \o list

(* The elements LRANGE key start stop selects (0-based, inclusive, negative *)
(* indexes count from the tail, out-of-range indexes are clamped).          *)
LRangeOp(list, start, stop) ==
    LET n  == Len(list)
        s0 == IF start < 0 THEN Max(n + start, 0) ELSE start
        e0 == IF stop < 0 THEN n + stop ELSE Min(stop, n - 1)
    IN  IF s0 > e0 \/ s0 >= n THEN <<>> ELSE SubSeq(list, s0 + 1, e0 + 1)

(* LTRIM key start stop: the list keeps exactly the range. *)
LTrimOp(list, start, stop) == LRangeOp(list, start, stop)

(* ------------------------------ inputs --------------------------------- *)

Types == {MessageTypeMessage}
Payloads == {"p"}
CorrelationIDs == {""}
TTLs == {0}

(* models.SendMessageRequest values. *)
Requests ==
    [ToAgent : Recipients, Type : Types, Payload : Payloads,
     CorrelationID : CorrelationIDs, TTL : TTLs]

HistoryKey(agentID) == messageHistoryPrefix \o agentID
Keys == {HistoryKey(a) : a \in HistoryIds}

(* Length of a1's history when the run starts: one below the cap (a2's is   *)
(* empty).                                                                  *)
Preloads == {messageHistoryMax - 1}

(* The i-th (1 = oldest) of `pre` earlier broadcast sends of a1, each of    *)
(* which ran alone and met no failure; their ids and timestamps are <= 0.  *)
PriorMessage(i, pre) ==
    NewMessage(i - pre, "a1", "broadcast", MessageTypeMessage, "p", "", i - pre, 0)

PriorHistory(pre) == [j \in 1..pre |-> Marshal(PriorMessage(pre + 1 - j, pre))]

(* A nil *models.Message. *)
NoMessage == NewMessage(0, Nil, Nil, Nil, Nil, "", 0, 0)

NoRead == [agent |-> Nil, limit |-> 0, msgs |-> <<>>, err |-> Nil]
NoReturn == [msg |-> NoMessage, err |-> Nil]

(* The consumers of the package that hold, or may ask for, a subscription. *)
Subscribers == {"s1", "s2"}

(* A consumer that has not subscribed.  `agent` is the argument Subscribe   *)
(* was given, `since` what had been published when the subscription became  *)
(* active.                                                                  *)
NoSubscription == [state |-> "none", agent |-> Nil, channel |-> Nil, since |-> {}]

(* A worker that has not been given a request. *)
NoRequest == [via |-> Nil, from |-> Nil, req |-> Nil, rejected |-> Nil]
Idle == [at |-> "idle", who |-> Nil]
Done == [at |-> "done", who |-> Nil]

Init ==
    \E pre \in Preloads :
        /\ pc = [p \in Procs |-> Idle]
        /\ cur = [p \in Procs |-> NoMessage]
        /\ chan = [p \in Procs |-> Nil]
        /\ ret = [p \in Procs |-> NoReturn]
        /\ log = [p \in Procs |-> <<>>]
        /\ published = {}
        /\ hist = [k \in Keys |-> IF k = HistoryKey("a1") THEN PriorHistory(pre) ELSE <<>>]
        /\ ttl = [k \in Keys |-> IF k = HistoryKey("a1") /\ pre > 0
                                 THEN messageHistoryTTL ELSE NoExpiry]
        /\ pushed = [k \in Keys |-> IF k = HistoryKey("a1")
                                    THEN [j \in 1..pre |-> 1 - j] ELSE <<>>]
        /\ nextId = 1
        /\ now = 1
        /\ failures = 0
        /\ lastRead = NoRead
        /\ http = [p \in Procs |-> NoRequest]
        /\ subs = [s \in Subscribers |-> NoSubscription]
        /\ feed = [s \in Subscribers |-> <<>>]
    /\ reg = InitialRegistry
    /\ rcall = [r \in RegProcs |-> NoCall]
        /\ reg = InitialRegistry
        /\ rcall = [r \in RegProcs |-> NoCall]

(* ------------------------------ SendMessage ---------------------------- *)

(* ResolveChannel with the recipient not appended to the prefix. *)
ResolveChannel_PrefixOnly(toAgent) ==
    IF toAgent = "broadcast" THEN broadcastChannel ELSE directMessageChannelPrefix

(* The channel SendMessage publishes on. *)
ResolveChannel(toAgent) ==
    IF toAgent = "broadcast" THEN broadcastChannel
    ELSE directMessageChannelPrefix \o toAgent

(* A Redis command may fail while the failure budget lasts. *)
MayFail == failures < MaxFailures

Logged(p, op, key, ok) == [log EXCEPT ![p] = Append(@, [op |-> op, key |-> key, ok |-> ok])]

(* BuildMessage with an id that is not fresh: the generator is not advanced. *)
BuildMessage_SameId(p, fromAgentID, req) ==
    /\ pc[p] = Idle
    /\ cur' = [cur EXCEPT ![p] =
                 NewMessage(nextId, fromAgentID, req.ToAgent, req.Type, req.Payload,
                            req.CorrelationID, now, req.TTL)]
    /\ chan' = [chan EXCEPT ![p] = ResolveChannel(req.ToAgent)]
    /\ now' = now + 1
    /\ pc' = [pc EXCEPT ![p] = [at |-> "publish", who |-> Nil]]
    /\ ret' = [ret EXCEPT ![p] = NoReturn]
    /\ log' = [log EXCEPT ![p] = <<>>]
    /\ UNCHANGED <<published, hist, ttl, pushed, failures, subs, feed, reg, rcall, nextId>>
    /\ lastRead' = NoRead

(* SendMessage up to its first round trip: build the Message, marshal it,   *)
(* resolve the channel.                                                     *)
BuildMessage(p, fromAgentID, req) ==
    /\ pc[p] = Idle
    /\ cur' = [cur EXCEPT ![p] =
                 NewMessage(nextId, fromAgentID, req.ToAgent, req.Type, req.Payload,
                            req.CorrelationID, now, req.TTL)]
    /\ chan' = [chan EXCEPT ![p] = ResolveChannel(req.ToAgent)]
    /\ nextId' = nextId + 1
    /\ now' = now + 1
    /\ pc' = [pc EXCEPT ![p] = [at |-> "publish", who |-> Nil]]
    /\ ret' = [ret EXCEPT ![p] = NoReturn]
    /\ log' = [log EXCEPT ![p] = <<>>]
    /\ UNCHANGED <<published, hist, ttl, pushed, failures, subs, feed, reg, rcall>>
    /\ lastRead' = NoRead

(* A caller of the package calls SendMessage with the request as it is. *)
DirectSend(p, fromAgentID, req) ==
    /\ BuildMessage(p, fromAgentID, req)
    /\ http' = [http EXCEPT ![p] = [via |-> "direct", from |-> fromAgentID, req |-> req,
                                     rejected |-> Nil]]

(* Delivered with one consumer for each message: the subscribers of a       *)
(* channel compete for it.                                                  *)
Delivered_OneConsumer(channel, data) ==
    LET on == {s \in Subscribers : subs[s].state = "active" /\ subs[s].channel = channel}
    IN  [s \in Subscribers |->
            IF on # {} /\ s = (CHOOSE t \in on : TRUE) THEN Append(feed[s], data)
            ELSE feed[s]]

(* What PUBLISH does to the feeds: Redis hands the data to every            *)
(* subscription that is active on the channel, to each its own copy, and to *)
(* no other.                                                                *)
Delivered(channel, data) ==
    [s \in Subscribers |->
        IF subs[s].state = "active" /\ subs[s].channel = channel
        THEN Append(feed[s], data) ELSE feed[s]]

(* PUBLISH succeeded: the subscribers of the channel get the data; go on to *)
(* the sender's history.                                                    *)
PublishOk(p) ==
    /\ pc[p].at = "publish"
    /\ published' = published \cup {<<chan[p], Marshal(cur[p])>>}
    /\ feed' = Delivered(chan[p], Marshal(cur[p]))
    /\ log' = Logged(p, "PUBLISH", chan[p], TRUE)
    /\ pc' = [pc EXCEPT ![p] = [at |-> "lpush", who |-> "sender"]]
    /\ UNCHANGED <<cur, chan, ret, hist, ttl, pushed, nextId, now, failures>>
    /\ lastRead' = NoRead
    /\ UNCHANGED <<http, subs, reg, rcall>>

(* PublishFail with the error ignored: the call goes on to the histories. *)
PublishFail_GoesOn(p) ==
    /\ pc[p].at = "publish"
    /\ MayFail
    /\ failures' = failures + 1
    /\ log' = Logged(p, "PUBLISH", chan[p], FALSE)
    /\ pc' = [pc EXCEPT ![p] = [at |-> "lpush", who |-> "sender"]]
    /\ UNCHANGED <<cur, chan, ret, published, hist, ttl, pushed, nextId, now>>
    /\ lastRead' = NoRead
    /\ UNCHANGED <<http, subs, feed, reg, rcall>>

(* PublishFail with a retry: the call stays at its publish step. *)
PublishFail_Retries(p) ==
    /\ pc[p].at = "publish"
    /\ MayFail
    /\ failures' = failures + 1
    /\ log' = Logged(p, "PUBLISH", chan[p], FALSE)
    /\ UNCHANGED <<pc, cur, chan, ret, published, hist, ttl, pushed, nextId, now>>
    /\ lastRead' = NoRead
    /\ UNCHANGED <<http, subs, feed, reg, rcall>>

(* PUBLISH failed: SendMessage returns nil and the error. *)
PublishFail(p) ==
    /\ pc[p].at = "publish"
    /\ MayFail
    /\ failures' = failures + 1
    /\ log' = Logged(p, "PUBLISH", chan[p], FALSE)
    /\ ret' = [ret EXCEPT ![p] = [msg |-> NoMessage, err |-> "failed to publish message"]]
    /\ pc' = [pc EXCEPT ![p] = Done]
    /\ UNCHANGED <<cur, chan, published, hist, ttl, pushed, nextId, now>>
    /\ lastRead' = NoRead
    /\ UNCHANGED <<http, subs, feed, reg, rcall>>

(* The agent id the storeMessageHistory call in progress was given. *)
StoreAgent(p) == IF pc[p].who = "sender" THEN cur[p].FromAgent ELSE cur[p].ToAgent

(* AfterStore without the broadcast test: the receiver's append always runs. *)
AfterStore_NoBroadcastCheck(p) ==
    IF pc[p].who = "sender" THEN [at |-> "lpush", who |-> "receiver"] ELSE Done

(* AfterStore without the receiver's append. *)
AfterStore_SenderOnly(p) == Done

(* Where SendMessage goes on when a storeMessageHistory call has returned,  *)
(* with or without an error: the receiver's history after the sender's      *)
(* unless the send is a broadcast, else the return.                         *)
AfterStore(p) ==
    IF pc[p].who = "sender" /\ cur[p].ToAgent # "broadcast"
    THEN [at |-> "lpush", who |-> "receiver"]
    ELSE Done

ReturnAfterStore(p) ==
    IF AfterStore(p) = Done
    THEN [ret EXCEPT ![p] = [msg |-> cur[p], err |-> Nil]]
    ELSE ret

(* storeMessageHistory, LPUSH succeeded: the marshalled message heads the list. *)
LPushOk(p) ==
    /\ pc[p].at = "lpush"
    /\ LET key == HistoryKey(StoreAgent(p)) IN
        /\ hist' = [hist EXCEPT ![key] = LPushOp(@, Marshal(cur[p]))]
        /\ pushed' = [pushed EXCEPT ![key] = <<cur[p].ID>> \o @]
        /\ log' = Logged(p, "LPUSH", key, TRUE)
    /\ pc' = [pc EXCEPT ![p] = [at |-> "ltrim", who |-> pc[p].who]]
    /\ UNCHANGED <<cur, chan, ret, published, ttl, nextId, now, failures>>
    /\ lastRead' = NoRead
    /\ UNCHANGED <<http, subs, feed, reg, rcall>>

(* LTrimOk with the stop index one too small. *)
LTrimOk_OneShort(p) ==
    /\ pc[p].at = "ltrim"
    /\ LET key == HistoryKey(StoreAgent(p)) IN
        /\ hist' = [hist EXCEPT ![key] = LTrimOp(@, 0, messageHistoryMax - 2)]
        /\ log' = Logged(p, "LTRIM", key, TRUE)
    /\ pc' = [pc EXCEPT ![p] = [at |-> "expire", who |-> pc[p].who]]
    /\ UNCHANGED <<cur, chan, ret, published, ttl, pushed, nextId, now, failures>>
    /\ lastRead' = NoRead
    /\ UNCHANGED <<http, subs, feed, reg, rcall>>

(* storeMessageHistory, LTRIM succeeded: the list keeps its first           *)
(* messageHistoryMax elements.                                              *)
LTrimOk(p) ==
    /\ pc[p].at = "ltrim"
    /\ LET key == HistoryKey(StoreAgent(p)) IN
        /\ hist' = [hist EXCEPT ![key] = LTrimOp(@, 0, messageHistoryMax - 1)]
        /\ log' = Logged(p, "LTRIM", key, TRUE)
    /\ pc' = [pc EXCEPT ![p] = [at |-> "expire", who |-> pc[p].who]]
    /\ UNCHANGED <<cur, chan, ret, published, ttl, pushed, nextId, now, failures>>
    /\ lastRead' = NoRead
    /\ UNCHANGED <<http, subs, feed, reg, rcall>>

(* ExpireOk with the ttl of the message, when it has one, as the expiry. *)
ExpireOk_MessageTTL(p) ==
    /\ pc[p].at = "expire"
    /\ LET key == HistoryKey(StoreAgent(p)) IN
        /\ ttl' = [ttl EXCEPT ![key] =
                      IF Len(hist[key]) = 0 THEN NoExpiry
                      ELSE IF cur[p].TTL # 0 THEN Seconds(now) + cur[p].TTL
                      ELSE Seconds(now) + messageHistoryTTL]
        /\ log' = Logged(p, "EXPIRE", key, TRUE)
    /\ pc' = [pc EXCEPT ![p] = AfterStore(p)]
    /\ ret' = ReturnAfterStore(p)
    /\ UNCHANGED <<cur, chan, published, hist, pushed, nextId, now, failures>>
    /\ lastRead' = NoRead
    /\ UNCHANGED <<http, subs, feed, reg, rcall>>

(* storeMessageHistory, EXPIRE succeeded: the key, if it exists, expires    *)
(* messageHistoryTTL from now (EXPIRE on a key that does not exist changes  *)
(* nothing and is no error); storeMessageHistory returns nil.               *)
ExpireOk(p) ==
    /\ pc[p].at = "expire"
    /\ LET key == HistoryKey(StoreAgent(p)) IN
        /\ ttl' = [ttl EXCEPT ![key] = IF Len(hist[key]) > 0
                                       THEN Seconds(now) + messageHistoryTTL
                                       ELSE NoExpiry]
        /\ log' = Logged(p, "EXPIRE", key, TRUE)
    /\ pc' = [pc EXCEPT ![p] = AfterStore(p)]
    /\ ret' = ReturnAfterStore(p)
    /\ UNCHANGED <<cur, chan, published, hist, pushed, nextId, now, failures>>
    /\ lastRead' = NoRead
    /\ UNCHANGED <<http, subs, feed, reg, rcall>>

(* StoreFail with the error passed on: SendMessage fails. *)
StoreFail_FailsSend(p) ==
    /\ pc[p].at \in {"lpush", "ltrim", "expire"}
    /\ MayFail
    /\ failures' = failures + 1
    /\ log' = Logged(p, "STORE", HistoryKey(StoreAgent(p)), FALSE)
    /\ pc' = [pc EXCEPT ![p] = Done]
    /\ ret' = [ret EXCEPT ![p] = [msg |-> NoMessage, err |-> "failed to store message history"]]
    /\ UNCHANGED <<cur, chan, published, hist, ttl, pushed, nextId, now>>
    /\ lastRead' = NoRead
    /\ UNCHANGED <<http, subs, feed, reg, rcall>>

(* storeMessageHistory, the command it is about to issue fails: it returns  *)
(* the error at once, SendMessage prints the warning and goes on.           *)
StoreFail(p) ==
    /\ pc[p].at \in {"lpush", "ltrim", "expire"}
    /\ MayFail
    /\ failures' = failures + 1
    /\ log' = Logged(p, CASE pc[p].at = "lpush" -> "LPUSH"
                          [] pc[p].at = "ltrim" -> "LTRIM"
                          [] OTHER -> "EXPIRE",
                     HistoryKey(StoreAgent(p)), FALSE)
    /\ pc' = [pc EXCEPT ![p] = AfterStore(p)]
    /\ ret' = ReturnAfterStore(p)
    /\ UNCHANGED <<cur, chan, published, hist, ttl, pushed, nextId, now>>
    /\ lastRead' = NoRead
    /\ UNCHANGED <<http, subs, feed, reg, rcall>>

(* ------------------------------ GetMessageHistory ---------------------- *)

(* ClampLimit without the upper test. *)
ClampLimit_NoUpper(limit) == IF limit <= 0 THEN messageHistoryMax ELSE limit

(* The limit GetMessageHistory reads with. *)
ClampLimit(limit) ==
    IF limit <= 0 \/ limit > messageHistoryMax THEN messageHistoryMax ELSE limit

(* The parse loop: i runs from the last element read down to the first; an  *)
(* element that does not unmarshal is skipped, the others are appended to   *)
(* the result in that order.                                                *)
ParseReversed(messages) ==
    LET n    == Len(messages)
        rev  == [i \in 1..n |-> messages[n + 1 - i]]
        kept == SelectSeq(rev, CanUnmarshal)
    IN  [i \in 1..Len(kept) |-> Unmarshal(kept[i])]

(* What GetMessageHistory returns when LRANGE answered with `list` as the   *)
(* stored list.                                                             *)
HistoryResult(list, limit) ==
    LET messages == LRangeOp(list, 0, ClampLimit(limit) - 1)
    IN  IF Len(messages) = 0 THEN <<>> ELSE ParseReversed(messages)

(* GetMessageHistoryOk with a missing key taken for an error. *)
GetMessageHistoryOk_EmptyIsError(agentID, limit) ==
    /\ lastRead = NoRead
    /\ lastRead' = [agent |-> agentID, limit |-> limit,
                    msgs |-> HistoryResult(hist[HistoryKey(agentID)], limit),
                    err |-> IF hist[HistoryKey(agentID)] = <<>> THEN "history not found"
                            ELSE Nil]
    /\ UNCHANGED <<pc, cur, chan, ret, log, published, hist, ttl, pushed, nextId, now,
                   failures, http, subs, feed, reg, rcall>>

(* GetMessageHistory, LRANGE answered.  lastRead holds the response for as   *)
(* long as the store is as the read saw it: every step of a send drops it.  *)
GetMessageHistoryOk(agentID, limit) ==
    /\ lastRead = NoRead
    /\ lastRead' = [agent |-> agentID, limit |-> limit,
                    msgs |-> HistoryResult(hist[HistoryKey(agentID)], limit),
                    err |-> Nil]
    /\ UNCHANGED <<pc, cur, chan, ret, log, published, hist, ttl, pushed, nextId, now,
                   failures, http, subs, feed, reg, rcall>>

(* GetMessageHistoryFail with the error swallowed: an empty result, no error. *)
GetMessageHistoryFail_Swallowed(agentID, limit) ==
    /\ lastRead = NoRead
    /\ MayFail
    /\ failures' = failures + 1
    /\ lastRead' = [agent |-> agentID, limit |-> limit, msgs |-> <<>>, err |-> Nil]
    /\ UNCHANGED <<pc, cur, chan, ret, log, published, hist, ttl, pushed, nextId, now,
                   http, subs, feed, reg, rcall>>

(* LRANGE failed: nil and the error. *)
GetMessageHistoryFail(agentID, limit) ==
    /\ lastRead = NoRead
    /\ MayFail
    /\ failures' = failures + 1
    /\ lastRead' = [agent |-> agentID, limit |-> limit, msgs |-> <<>>,
                    err |-> "failed to get message history"]
    /\ UNCHANGED <<pc, cur, chan, ret, log, published, hist, ttl, pushed, nextId, now,
                   http, subs, feed, reg, rcall>>

(* ------------------------------ specification -------------------------- *)

Next ==
    \/ \E p \in Procs, req \in Requests : DirectSend(p, SenderOf(p), req)
    \/ \E p \in Procs : PublishOk(p)
    \/ \E p \in Procs : PublishFail(p)
    \/ \E p \in Procs : LPushOk(p)
    \/ \E p \in Procs : LTrimOk(p)
    \/ \E p \in Procs : ExpireOk(p)
    \/ \E p \in Procs : StoreFail(p)
    \/ \E a \in Agents, limit \in Limits : GetMessageHistoryOk(a, limit)
    \/ \E a \in Agents, limit \in Limits : GetMessageHistoryFail(a, limit)

Spec == Init /\ [][Next]_vars

(* ------------------------------ handler, clock, expiry ----------------- *)
(* A second run of the same broker, with short histories: the requests come *)
(* through MessageHandler.Send or go to SendMessage directly, with every    *)
(* kind of field value; the clock advances and Redis expires keys; a1's     *)
(* history holds an entry that is no Message.                               *)

(* Bound of the second run: the number of clock steps. *)
MaxTicks == 1

(* A clock step: half the retention window, in seconds. *)
TickStep == messageHistoryTTL \div 2

(* Ids found in the registry (registry.Get returns the agent). *)
Registered == {a \in RegIds : reg.kv[AgentKey(a)] # NoValue}

(* The identifiers a history key is built from in the second run. *)
StoreIds == HistoryIds \cup {"", "never-registered"}
StoreKeys == {HistoryKey(a) : a \in StoreIds}

(* A list element that json.Unmarshal rejects (written by another client of *)
(* the Redis instance).                                                     *)
Garbage == [raw |-> "not json"]

(* A request body that json.Decode rejects. *)
Malformed == [body |-> "not json"]

(* The i-th (1 = older) of two earlier broadcast sends of a1, made half a   *)
(* retention window before the second run starts.                           *)
EarlierMessage(i) ==
    NewMessage(i - 2, "a1", "broadcast", MessageTypeMessage, "p", "",
               (i - 2) - TickStep * Second, 0)

(* a1's history when the second run starts, newest first: the two earlier   *)
(* messages and, between them, the foreign element.                         *)
SmallHistory == <<Marshal(EarlierMessage(2)), Garbage, Marshal(EarlierMessage(1))>>

(* Request bodies of the second run: to an agent or to nobody, with no type, *)
(* a correlation id and a ttl; a broadcast request that sets the type and   *)
(* leaves the optional fields out.                                          *)
WideRequests ==
    [ToAgent : {"a2", ""}, Type : {""}, Payload : Payloads, CorrelationID : {"c1"},
     TTL : {60}]
    \cup [ToAgent : {"broadcast"}, Type : {"request"}, Payload : Payloads,
          CorrelationID : {""}, TTL : {0}]

PlainRequest(to) ==
    [ToAgent |-> to, Type |-> MessageTypeMessage, Payload |-> "p", CorrelationID |-> "",
     TTL |-> 0]

(* The calls a worker may be given: w1 every request of a1 through the      *)
(* handler, the requests the handler turns away and, to the broker          *)
(* directly, the request to nobody; w2 a message of a2 to a1.               *)
Calls(p) ==
    IF p = "w1"
    THEN [via : {"handler"}, from : {"a1"}, req : WideRequests]
         \cup [via : {"direct"}, from : {"a1"},
               req : {r \in WideRequests : r.ToAgent = ""}]
         \cup {[via |-> "handler", from |-> "never-registered", req |-> PlainRequest("a2")],
               [via |-> "handler", from |-> "a1", req |-> Malformed]}
    ELSE {[via |-> "handler", from |-> SenderOf(p), req |-> PlainRequest("a1")]}

(* Values of agentID and limit of the reads of the second run. *)
Readers == {"a1", "never-registered"}
SmallLimits == {0, 2}

(* The reads of the second run: a1 with either limit, the other id with the *)
(* default one.                                                             *)
Reads == {r \in Readers \X SmallLimits : r[1] \in Registered \/ r[2] = 0}

InitHub ==
    /\ pc = [p \in Procs |-> Idle]
    /\ cur = [p \in Procs |-> NoMessage]
    /\ chan = [p \in Procs |-> Nil]
    /\ ret = [p \in Procs |-> NoReturn]
    /\ log = [p \in Procs |-> <<>>]
    /\ published = {}
    /\ hist = [k \in StoreKeys |-> IF k = HistoryKey("a1") THEN SmallHistory ELSE <<>>]
    /\ ttl = [k \in StoreKeys |-> IF k = HistoryKey("a1")
                                     THEN messageHistoryTTL - TickStep ELSE NoExpiry]
    /\ pushed = [k \in StoreKeys |-> IF k = HistoryKey("a1") THEN <<0, 0 - 1>> ELSE <<>>]
    /\ nextId = 1
    /\ now = 1
    /\ failures = 0
    /\ lastRead = NoRead
    /\ http = [p \in Procs |-> NoRequest]
    /\ subs = [s \in Subscribers |-> NoSubscription]
    /\ feed = [s \in Subscribers |-> <<>>]
    /\ reg = InitialRegistry
    /\ rcall = [r \in RegProcs |-> NoCall]

(* MessageHandler.Send ends before it calls the broker. *)
Reject(p, call, why) ==
    /\ pc' = [pc EXCEPT ![p] = Done]
    /\ cur' = [cur EXCEPT ![p] = NoMessage]
    /\ chan' = [chan EXCEPT ![p] = Nil]
    /\ ret' = [ret EXCEPT ![p] = NoReturn]
    /\ log' = [log EXCEPT ![p] = <<>>]
    /\ http' = [http EXCEPT ![p] = [call EXCEPT !.rejected = why]]
    /\ lastRead' = NoRead
    /\ UNCHANGED <<subs, feed, reg, rcall>>

(* WithDefaultType with the type left as it came. *)
WithDefaultType_None(req) == req

(* The request MessageHandler.Send passes to the broker: an empty type has  *)
(* become MessageTypeMessage.                                               *)
WithDefaultType(req) ==
    [req EXCEPT !.Type = IF @ = "" THEN MessageTypeMessage ELSE @]

(* HandlerSend with the recipient looked up in the registry as the sender   *)
(* is.                                                                      *)
HandlerSend_ChecksRecipient(p, fromAgentID, req) ==
    /\ pc[p] = Idle
    /\ LET call == [via |-> "handler", from |-> fromAgentID, req |-> req, rejected |-> Nil]
       IN  IF fromAgentID \notin Registered
           THEN /\ Reject(p, call, "sender agent not found")
                /\ UNCHANGED <<published, hist, ttl, pushed, nextId, now, failures>>
           ELSE IF req = Malformed
           THEN /\ Reject(p, call, "invalid request body")
                /\ UNCHANGED <<published, hist, ttl, pushed, nextId, now, failures>>
           ELSE IF req.ToAgent = ""
           THEN /\ Reject(p, call, "to_agent is required")
                /\ UNCHANGED <<published, hist, ttl, pushed, nextId, now, failures>>
           ELSE IF req.ToAgent \notin Registered \cup {"broadcast"}
           THEN /\ Reject(p, call, "recipient agent not found")
                /\ UNCHANGED <<published, hist, ttl, pushed, nextId, now, failures>>
           ELSE /\ BuildMessage(p, fromAgentID, WithDefaultType(req))
                /\ http' = [http EXCEPT ![p] = call]

(* MessageHandler.Send, registry.Get answered: not found for an id that is  *)
(* not registered; then the body is decoded, an empty to_agent is turned    *)
(* away, the type gets its default and SendMessage is called.               *)
HandlerSend(p, fromAgentID, req) ==
    /\ pc[p] = Idle
    /\ LET call == [via |-> "handler", from |-> fromAgentID, req |-> req, rejected |-> Nil]
       IN  IF fromAgentID \notin Registered
           THEN /\ Reject(p, call, "sender agent not found")
                /\ UNCHANGED <<published, hist, ttl, pushed, nextId, now, failures>>
           ELSE IF req = Malformed
           THEN /\ Reject(p, call, "invalid request body")
                /\ UNCHANGED <<published, hist, ttl, pushed, nextId, now, failures>>
           ELSE IF req.ToAgent = ""
           THEN /\ Reject(p, call, "to_agent is required")
                /\ UNCHANGED <<published, hist, ttl, pushed, nextId, now, failures>>
           ELSE /\ BuildMessage(p, fromAgentID, WithDefaultType(req))
                /\ http' = [http EXCEPT ![p] = call]

(* MessageHandler.Send, registry.Get failed: internal server error. *)
HandlerSendFail(p, fromAgentID, req) ==
    /\ pc[p] = Idle
    /\ MayFail
    /\ failures' = failures + 1
    /\ Reject(p, [via |-> "handler", from |-> fromAgentID, req |-> req, rejected |-> Nil],
              "registry error")
    /\ UNCHANGED <<published, hist, ttl, pushed, nextId, now>>

(* The channel MessageHandler.Send reports. *)
ResponseChannel(req) == "agent:message:" \o req.ToAgent

(* The body of the 202 response MessageHandler.Send writes when the         *)
(* SendMessage call of worker p has returned a Message.                     *)
SendMessageResponse(p) ==
    [MessageID |-> ret[p].msg.ID, Timestamp |-> ret[p].msg.Timestamp,
     Channel |-> ResponseChannel(http[p].req)]

(* The key has reached the second of its expiry. *)
Due(k) == ttl[k] # NoExpiry /\ Seconds(now) >= ttl[k]

NoKeyDue == \A k \in DOMAIN ttl : ~Due(k)

(* KeyExpires with the entries shared between the histories: the messages   *)
(* of the expired list vanish from every other list too.                    *)
KeyExpires_Shared(k) ==
    /\ Due(k)
    /\ hist' = [j \in DOMAIN hist |->
                  IF j = k THEN <<>>
                  ELSE SelectSeq(hist[j],
                                 LAMBDA e : \A i \in 1..Len(hist[k]) : hist[k][i] # e)]
    /\ ttl' = [ttl EXCEPT ![k] = NoExpiry]
    /\ lastRead' = NoRead
    /\ UNCHANGED <<pc, cur, chan, ret, log, published, pushed, nextId, now, failures, http,
                   subs, feed, reg, rcall>>

(* Redis expires the key: the list is gone as a whole, with its expiry. *)
KeyExpires(k) ==
    /\ Due(k)
    /\ hist' = [hist EXCEPT ![k] = <<>>]
    /\ ttl' = [ttl EXCEPT ![k] = NoExpiry]
    /\ lastRead' = NoRead
    /\ UNCHANGED <<pc, cur, chan, ret, log, published, pushed, nextId, now, failures, http, subs, feed, reg, rcall>>

(* The clock advances by TickStep seconds. *)
Tick ==
    /\ Seconds(now) \div TickStep < MaxTicks
    /\ now' = now + TickStep * Second
    /\ lastRead' = NoRead
    /\ UNCHANGED <<pc, cur, chan, ret, log, published, hist, ttl, pushed, nextId, failures,
                   http, subs, feed, reg, rcall>>

(* A key that is due expires before anything else happens: no command sees  *)
(* a list past its expiry.                                                  *)
NextHub ==
    \/ \E k \in StoreKeys : KeyExpires(k)
    \/ \E p \in Procs : \E c \in Calls(p) :
           NoKeyDue /\ c.via = "handler" /\ HandlerSend(p, c.from, c.req)
    \/ \E p \in Procs : \E c \in Calls(p) :
           NoKeyDue /\ c.via = "handler" /\ HandlerSendFail(p, c.from, c.req)
    \/ \E p \in Procs : \E c \in Calls(p) :
           NoKeyDue /\ c.via = "direct" /\ DirectSend(p, c.from, c.req)
    \/ \E p \in Procs : NoKeyDue /\ PublishOk(p)
    \/ \E p \in Procs : NoKeyDue /\ PublishFail(p)
    \/ \E p \in Procs : NoKeyDue /\ LPushOk(p)
    \/ \E p \in Procs : NoKeyDue /\ LTrimOk(p)
    \/ \E p \in Procs : NoKeyDue /\ ExpireOk(p)
    \/ \E p \in Procs : NoKeyDue /\ StoreFail(p)
    \/ \E r \in Reads : NoKeyDue /\ GetMessageHistoryOk(r[1], r[2])
    \/ NoKeyDue /\ Tick

SpecHub == InitHub /\ [][NextHub]_vars

(* ------------------------------ subscriptions -------------------------- *)
(* A third run: consumers of the package subscribe, by Subscribe or by      *)
(* SubscribeToBroadcast, and cancel, while the workers send.                *)

(* The channel Subscribe subscribes to. *)
SubscribeChannel(agentID) == directMessageChannelPrefix \o agentID

(* The calls a consumer may make: s1 Subscribe for a2 or for the id         *)
(* "broadcast", or SubscribeToBroadcast (agent Nil); s2 Subscribe for a2.   *)
SubscribeCalls(s) == IF s = "s1" THEN {"a2", "broadcast", Nil} ELSE {"a2"}

(* The requests of the third run: w1 sends to a2 or to everybody, w2 to a2  *)
(* (itself).                                                                *)
SubRequests(p) ==
    IF p = "w1" THEN {PlainRequest("a2"), PlainRequest("broadcast")}
    ELSE {PlainRequest("a2")}

(* Subscribe returns the subscription.  The client has sent SUBSCRIBE and   *)
(* does not wait for the answer: the subscription is not yet active.        *)
Subscribe(s, agentID) ==
    /\ subs[s].state = "none"
    /\ subs' = [subs EXCEPT ![s] = [state |-> "subscribing", agent |-> agentID,
                                     channel |-> SubscribeChannel(agentID), since |-> {}]]
    /\ UNCHANGED <<pc, cur, chan, ret, log, published, hist, ttl, pushed, nextId, now,
                   failures, lastRead, http, feed, reg, rcall>>

(* SubscribeToBroadcast returns the subscription. *)
SubscribeToBroadcast(s) ==
    /\ subs[s].state = "none"
    /\ subs' = [subs EXCEPT ![s] = [state |-> "subscribing", agent |-> Nil,
                                     channel |-> broadcastChannel, since |-> {}]]
    /\ UNCHANGED <<pc, cur, chan, ret, log, published, hist, ttl, pushed, nextId, now,
                   failures, lastRead, http, feed, reg, rcall>>

(* What has been published on the channel so far, in the order of the ids. *)
Backlog(channel) ==
    LET back == {x[2] : x \in {y \in published : y[1] = channel}}
    IN  CHOOSE f \in [1..Cardinality(back) -> back] :
            \A i, j \in 1..Cardinality(back) : i < j => f[i].id < f[j].id

(* SubscriptionActive with a replay: the new subscription is handed what    *)
(* was published on its channel before.                                     *)
SubscriptionActive_Replays(s) ==
    /\ subs[s].state = "subscribing"
    /\ subs' = [subs EXCEPT ![s] = [@ EXCEPT !.state = "active", !.since = published]]
    /\ feed' = [feed EXCEPT ![s] = @ \o Backlog(subs[s].channel)]
    /\ UNCHANGED <<pc, cur, chan, ret, log, published, hist, ttl, pushed, nextId, now,
                   failures, lastRead, http, reg, rcall>>

(* Redis has taken the SUBSCRIBE: what is published on the channel from now *)
(* on is delivered.                                                         *)
SubscriptionActive(s) ==
    /\ subs[s].state = "subscribing"
    /\ subs' = [subs EXCEPT ![s] = [@ EXCEPT !.state = "active", !.since = published]]
    /\ UNCHANGED <<pc, cur, chan, ret, log, published, hist, ttl, pushed, nextId, now,
                   failures, lastRead, http, feed, reg, rcall>>

(* The owner of the subscription cancels it (PubSub.Close). *)
Close(s) ==
    /\ subs[s].state \in {"subscribing", "active"}
    /\ subs' = [subs EXCEPT ![s] = [@ EXCEPT !.state = "closed"]]
    /\ UNCHANGED <<pc, cur, chan, ret, log, published, hist, ttl, pushed, nextId, now,
                   failures, lastRead, http, feed, reg, rcall>>

NextSub ==
    \/ \E p \in Procs : \E req \in SubRequests(p) : DirectSend(p, SenderOf(p), req)
    \/ \E p \in Procs : PublishOk(p)
    \/ \E p \in Procs : PublishFail(p)
    \/ \E p \in Procs : LPushOk(p)
    \/ \E p \in Procs : LTrimOk(p)
    \/ \E p \in Procs : ExpireOk(p)
    \/ \E s \in Subscribers : \E a \in SubscribeCalls(s) \ {Nil} : Subscribe(s, a)
    \/ \E s \in Subscribers : Nil \in SubscribeCalls(s) /\ SubscribeToBroadcast(s)
    \/ \E s \in Subscribers : SubscriptionActive(s)
    \/ \E s \in Subscribers : Close(s)

SpecSub == InitHub /\ [][NextSub]_vars

(* ------------------------------ registry ------------------------------- *)
(* A fourth run: clients of the registry call Register, Update, Unregister  *)
(* and Heartbeat concurrently, each call a sequence of Redis commands, any  *)
(* of which may fail, while the message handler serves send requests.       *)

(* What the registry calls leave alone. *)
brokerVars == <<pc, cur, chan, ret, log, published, hist, ttl, pushed, nextId,
                lastRead, http, subs, feed>>

(* models.RegisterAgentRequest and models.UpdateAgentRequest values. *)
RegisterRequests == {[Name |-> "n3"]}
UpdateRequests(r) == IF r = "r1" THEN {[Name |-> "n1", Status |-> ""]}
                     ELSE {[Name |-> "", Status |-> StatusBusy]}

(* SET key value: the key holds the value, without expiry or with one. *)
SetOp(kv, key, val, exp) == [kv EXCEPT ![key] = Stored(val, exp)]

(* DEL key. *)
DelOp(kv, key) == [kv EXCEPT ![key] = NoValue]

(* The call of client r has returned. *)
Finish(r, err) == [rcall EXCEPT ![r] = [@ EXCEPT !.at = "done", !.err = err]]

(* The call of client r goes on to its next command. *)
GoOn(r, at) == [rcall EXCEPT ![r] = [@ EXCEPT !.at = at]]

(* Register: a fresh id, the agent online, created and last seen now. *)
Register(r, req) ==
    /\ rcall[r].at = "idle"
    /\ \E id \in NewAgentIds :
        /\ \A q \in RegProcs : rcall[q].id # id
        /\ rcall' = [rcall EXCEPT ![r] =
               [op |-> "Register", id |-> id, at |-> "set",
                agent |-> NewAgent(id, req.Name, StatusOnline, now, now),
                req |-> NoUpdate, err |-> Nil]]
    /\ UNCHANGED <<brokerVars, now, failures, reg>>

(* Register: SET agent:<id>. *)
RegisterSet(r) ==
    /\ rcall[r].at = "set"
    /\ reg' = [reg EXCEPT !.kv = SetOp(@, AgentKey(rcall[r].id),
                                       MarshalAgent(rcall[r].agent), NoExpiry)]
    /\ rcall' = GoOn(r, "sadd")
    /\ UNCHANGED <<brokerVars, now, failures>>

(* Register: SADD agents:index <id>; updateHeartbeat follows. *)
RegisterSAdd(r) ==
    /\ rcall[r].at = "sadd"
    /\ reg' = [reg EXCEPT !.index = @ \cup {rcall[r].id}]
    /\ rcall' = GoOn(r, "heartbeat.set")
    /\ UNCHANGED <<brokerVars, now, failures>>

(* Update, Unregister and Heartbeat begin with Get. *)
Enter(r, op, agentID, req) ==
    /\ rcall[r].at = "idle"
    /\ rcall' = [rcall EXCEPT ![r] = [op |-> op, id |-> agentID, at |-> "get",
                                      agent |-> NoAgent, req |-> req, err |-> Nil]]
    /\ UNCHANGED <<brokerVars, now, failures, reg>>

Update(r, agentID, req) == Enter(r, "Update", agentID, req)
Unregister(r, agentID) == Enter(r, "Unregister", agentID, NoUpdate)
Heartbeat(r, agentID) == Enter(r, "Heartbeat", agentID, NoUpdate)

(* Update: the fields of the request that are set replace the agent's. *)
Applied(agent, req) ==
    [agent EXCEPT !.Name = IF req.Name # "" THEN req.Name ELSE @,
                  !.Status = IF req.Status # "" THEN req.Status ELSE @]

(* Get: GET agent:<id>; redis.Nil is ErrAgentNotFound, and the call that    *)
(* began with Get returns it.  Update applies its request to what it read.  *)
Get(r) ==
    /\ rcall[r].at = "get"
    /\ LET stored == reg.kv[AgentKey(rcall[r].id)]
       IN  IF stored = NoValue
           THEN rcall' = Finish(r, ErrAgentNotFound)
           ELSE rcall' = [rcall EXCEPT ![r] =
                   [@ EXCEPT !.agent = IF rcall[r].op = "Update"
                                       THEN Applied(UnmarshalAgent(stored.val), rcall[r].req)
                                       ELSE UnmarshalAgent(stored.val),
                             !.at = IF rcall[r].op = "Update" THEN "update.set"
                                    ELSE IF rcall[r].op = "Unregister" THEN "srem"
                                    ELSE "heartbeat.set"]]
    /\ UNCHANGED <<brokerVars, now, failures, reg>>

(* Update: SET agent:<id> with the agent Get read and the request changed. *)
UpdateSet(r) ==
    /\ rcall[r].at = "update.set"
    /\ reg' = [reg EXCEPT !.kv = SetOp(@, AgentKey(rcall[r].id),
                                       MarshalAgent(rcall[r].agent), NoExpiry)]
    /\ rcall' = Finish(r, Nil)
    /\ UNCHANGED <<brokerVars, now, failures>>

(* Unregister: SREM agents:index <id>. *)
UnregisterSRem(r) ==
    /\ rcall[r].at = "srem"
    /\ reg' = [reg EXCEPT !.index = @ \ {rcall[r].id}]
    /\ rcall' = GoOn(r, "del")
    /\ UNCHANGED <<brokerVars, now, failures>>

(* Unregister: DEL agent:<id>; the heartbeat key is left to expire. *)
UnregisterDel(r) ==
    /\ rcall[r].at = "del"
    /\ reg' = [reg EXCEPT !.kv = DelOp(@, AgentKey(rcall[r].id))]
    /\ rcall' = Finish(r, Nil)
    /\ UNCHANGED <<brokerVars, now, failures>>

(* updateHeartbeat: SET agent:heartbeat:<id> <unix time>, to expire after   *)
(* agentHeartbeatTTL.                                                       *)
UpdateHeartbeatSet(r) ==
    /\ rcall[r].at = "heartbeat.set"
    /\ reg' = [reg EXCEPT !.kv = SetOp(@, HeartbeatKey(rcall[r].id), Seconds(now),
                                       Seconds(now) + agentHeartbeatTTL)]
    /\ rcall' = GoOn(r, "heartbeat.get")
    /\ UNCHANGED <<brokerVars, now, failures>>

(* updateHeartbeat: GET agent:<id>; a missing key is an error here; the     *)
(* agent read gets LastSeen = time.Now().                                   *)
UpdateHeartbeatGet(r) ==
    /\ rcall[r].at = "heartbeat.get"
    /\ LET stored == reg.kv[AgentKey(rcall[r].id)]
       IN  IF stored = NoValue
           THEN /\ rcall' = Finish(r, "failed to get agent for heartbeat")
                /\ now' = now
           ELSE /\ rcall' = [rcall EXCEPT ![r] =
                       [@ EXCEPT !.agent = [UnmarshalAgent(stored.val)
                                               EXCEPT !.LastSeen = now],
                                 !.at = "heartbeat.save"]]
                /\ now' = now + 1
    /\ UNCHANGED <<brokerVars, failures, reg>>

(* updateHeartbeat: SET agent:<id> with the agent it read. *)
UpdateHeartbeatSave(r) ==
    /\ rcall[r].at = "heartbeat.save"
    /\ reg' = [reg EXCEPT !.kv = SetOp(@, AgentKey(rcall[r].id),
                                       MarshalAgent(rcall[r].agent), NoExpiry)]
    /\ rcall' = Finish(r, Nil)
    /\ UNCHANGED <<brokerVars, now, failures>>

(* The Redis command the call is at fails: the call returns the error, and  *)
(* what its earlier commands wrote stays.                                   *)
CommandFails(r) ==
    /\ rcall[r].at \notin {"idle", "done"}
    /\ MayFail
    /\ failures' = failures + 1
    /\ rcall' = Finish(r, "failed at " \o rcall[r].at)
    /\ UNCHANGED <<brokerVars, now, reg>>

(* What Get returns for the id now. *)
GetResult(agentID) ==
    IF reg.kv[AgentKey(agentID)] = NoValue
    THEN [agent |-> NoAgent, err |-> ErrAgentNotFound]
    ELSE [agent |-> UnmarshalAgent(reg.kv[AgentKey(agentID)].val), err |-> Nil]

(* What List returns now: the agents of the index that Get finds. *)
List ==
    {GetResult(id).agent : id \in {i \in reg.index : GetResult(i).err = Nil}}

(* The send requests of the fourth run, all through the handler. *)
GateCalls ==
    {[from |-> "a1", req |-> PlainRequest("never-registered")],
     [from |-> "never-registered", req |-> PlainRequest("a2")]}

NextReg ==
    \/ \E r \in RegProcs : r = "r1" /\ \E req \in RegisterRequests : Register(r, req)
    \/ \E r \in RegProcs : RegisterSet(r)
    \/ \E r \in RegProcs : RegisterSAdd(r)
    \/ \E r \in RegProcs : \E req \in UpdateRequests(r) : Update(r, "a1", req)
    \/ \E r \in RegProcs : r = "r1" /\ Unregister(r, "a1")
    \/ \E r \in RegProcs : r = "r2" /\ Heartbeat(r, "a1")
    \/ \E r \in RegProcs : Get(r)
    \/ \E r \in RegProcs : UpdateSet(r)
    \/ \E r \in RegProcs : UnregisterSRem(r)
    \/ \E r \in RegProcs : UnregisterDel(r)
    \/ \E r \in RegProcs : UpdateHeartbeatSet(r)
    \/ \E r \in RegProcs : UpdateHeartbeatGet(r)
    \/ \E r \in RegProcs : UpdateHeartbeatSave(r)
    \/ \E r \in RegProcs : CommandFails(r)
    \/ \E c \in GateCalls : HandlerSend("w1", c.from, c.req)
    \/ \E c \in GateCalls : HandlerSendFail("w1", c.from, c.req)
    \/ \E p \in Procs : PublishOk(p)
    \/ \E p \in Procs : LPushOk(p)
    \/ \E p \in Procs : LTrimOk(p)
    \/ \E p \in Procs : ExpireOk(p)

SpecReg == InitHub /\ [][NextReg]_vars


(* ------------------------------ properties ----------------------------- *)

(* A worker whose SendMessage call has returned. *)
Returned(p) == pc[p] = Done

(* Number of entries of a stored list that carry the message id. *)
Occurrences(list, id) == Cardinality({i \in 1..Len(list) : list[i].id = id})

(* Number of commands `op` on `key` in a call's command log. *)
Issued(p, op, key) ==
    Cardinality({i \in 1..Len(log[p]) : log[p][i].op = op /\ log[p][i].key = key})

AllOk(p) == \A i \in 1..Len(log[p]) : log[p][i].ok

(* C1: when the publish step of a SendMessage call fails, the call ends     *)
(* there, returns the error and no Message, and no history holds (or ever   *)
(* held) the message it had built.                                          *)
C1_PublishFailureFailsSend ==
    \A p \in Procs :
        (log[p] # <<>> /\ ~log[p][1].ok) =>
            /\ pc[p] = Done
            /\ Len(log[p]) = 1
            /\ ret[p].msg = NoMessage
            /\ ret[p].err # Nil
            /\ \A k \in Keys :
                /\ Occurrences(hist[k], cur[p].ID) = 0
                /\ \A i \in 1..Len(pushed[k]) : pushed[k][i] # cur[p].ID

(* A publish failed while the other worker's send had reached a history. *)
C1_Witness ==
    \E p, q \in Procs :
        /\ Returned(p) /\ ~log[p][1].ok
        /\ q # p /\ Returned(q) /\ AllOk(q)
        /\ Occurrences(hist[HistoryKey(cur[q].FromAgent)], cur[q].ID) >= 1

(* C2: when the publish step succeeded, the returned call returns the       *)
(* Message it built and no error, whatever the history commands did.        *)
C2_HistoryFailureNotFatal ==
    \A p \in Procs :
        (Returned(p) /\ log[p][1].ok) => ret[p] = [msg |-> cur[p], err |-> Nil]

(* A send returned its Message although one of its history commands failed. *)
C2_Witness ==
    \E p \in Procs :
        /\ Returned(p) /\ log[p][1].ok
        /\ \E i \in 2..Len(log[p]) : ~log[p][i].ok
        /\ ret[p].msg = cur[p] /\ ret[p].msg # NoMessage /\ ret[p].err = Nil

(* C3: a broadcast send is published on agent:broadcast; nothing is ever    *)
(* stored under the "broadcast" id; an entry addressed to "broadcast" lies  *)
(* only in the history of its sender.                                       *)
C3_BroadcastHistorySenderOnly ==
    /\ hist[HistoryKey("broadcast")] = <<>>
    /\ pushed[HistoryKey("broadcast")] = <<>>
    /\ \A k \in Keys : \A i \in 1..Len(hist[k]) :
           hist[k][i].to_agent = "broadcast" => k = "agent:history:" \o hist[k][i].from_agent
    /\ \A x \in published : x[2].to_agent = "broadcast" => x[1] = "agent:broadcast"

(* A broadcast send of a2 has returned and is in a2's history. *)
C3_Witness ==
    \E p \in Procs :
        /\ Returned(p) /\ AllOk(p)
        /\ cur[p].ToAgent = "broadcast" /\ cur[p].FromAgent = "a2"
        /\ Occurrences(hist[HistoryKey("a2")], cur[p].ID) = 1
        /\ <<"agent:broadcast", Marshal(cur[p])>> \in published

(* The history keys a call appends to, one per storeMessageHistory call. *)
AppendsTo(msg, k) ==
    (IF k = "agent:history:" \o msg.FromAgent THEN 1 ELSE 0)
    + (IF msg.ToAgent # "broadcast" /\ k = "agent:history:" \o msg.ToAgent THEN 1 ELSE 0)

(* C4: a call makes one publish attempt, on the channel of its recipient,   *)
(* and no history command more often than it has appends for the key; the   *)
(* transport holds a message at most once, on that channel.                 *)
C4_OnePublishNoRetry ==
    /\ \A p \in Procs :
        LET expected == IF cur[p].ToAgent = "broadcast" THEN "agent:broadcast"
                        ELSE "agent:message:" \o cur[p].ToAgent
        IN  /\ \A i \in 1..Len(log[p]) : log[p][i].op = "PUBLISH" => i = 1
            /\ log[p] # <<>> => log[p][1] \in {[op |-> "PUBLISH", key |-> expected, ok |-> b] :
                                               b \in BOOLEAN}
            /\ pc[p].at \in {"lpush", "ltrim", "expire"} => log[p] # <<>>
            /\ \A k \in Keys : \A op \in {"LPUSH", "LTRIM", "EXPIRE"} :
                   Issued(p, op, k) <= AppendsTo(cur[p], k)
    /\ \A x, y \in published : x[2].id = y[2].id => x = y
    /\ \A x \in published :
           x[1] = (IF x[2].to_agent = "broadcast" THEN "agent:broadcast"
                   ELSE "agent:message:" \o x[2].to_agent)

(* A direct send has returned: published once, on agent:message:a2. *)
C4_Witness ==
    \E p \in Procs :
        /\ Returned(p) /\ AllOk(p) /\ cur[p].ToAgent = "a2"
        /\ Issued(p, "PUBLISH", "agent:message:a2") = 1
        /\ <<"agent:message:a2", Marshal(cur[p])>> \in published

(* Entries with the id over all histories. *)
RECURSIVE TotalOccurrences(_, _)
TotalOccurrences(ks, id) ==
    IF ks = {} THEN 0
    ELSE LET k == CHOOSE x \in ks : TRUE
         IN  Occurrences(hist[k], id) + TotalOccurrences(ks \ {k}, id)

(* C5: a returned send none of whose commands failed has added, for a       *)
(* direct send, one entry under the sender and one under the recipient (two *)
(* under the one key when they are the same agent) and nothing elsewhere,   *)
(* for a broadcast send one entry under the sender and nothing elsewhere;   *)
(* no message has more than two entries in all.                             *)
C5_EntriesPerSend ==
    /\ \A p \in Procs :
        (Returned(p) /\ AllOk(p)) =>
            \A k \in Keys : Occurrences(hist[k], cur[p].ID) = AppendsTo(cur[p], k)
    /\ \A id \in 1..Cardinality(Procs) : TotalOccurrences(Keys, id) <= 2

(* A direct send a1 -> a2 and a broadcast send have both returned complete. *)
C5_Witness ==
    \E p, q \in Procs :
        /\ Returned(p) /\ AllOk(p) /\ cur[p].FromAgent = "a1" /\ cur[p].ToAgent = "a2"
        /\ Occurrences(hist[HistoryKey("a1")], cur[p].ID) = 1
        /\ Occurrences(hist[HistoryKey("a2")], cur[p].ID) = 1
        /\ TotalOccurrences(Keys, cur[p].ID) = 2
        /\ Returned(q) /\ AllOk(q) /\ cur[q].ToAgent = "broadcast"
        /\ TotalOccurrences(Keys, cur[q].ID) = 1

(* The history a returned read was answered from. *)
ReadList == hist[HistoryKey(lastRead.agent)]
ReadPushed == pushed[HistoryKey(lastRead.agent)]
ReadOk == lastRead.agent # Nil /\ lastRead.err = Nil

(* C6: once more than messageHistoryMax entries have been appended to an    *)
(* agent's history, a read with limit >= messageHistoryMax returns exactly  *)
(* the messageHistoryMax most recently appended messages, the oldest of     *)
(* them first.                                                              *)
C6_BoundedHistoryRead ==
    (ReadOk /\ lastRead.limit >= 100 /\ Len(ReadPushed) > 100) =>
        /\ Len(lastRead.msgs) = 100
        /\ \A j \in 1..100 : lastRead.msgs[j].ID = ReadPushed[100 + 1 - j]

(* a1's history was read with limit 101 after 102 appends, the last of them *)
(* by a send of this run that has returned.                                 *)
C6_Witness ==
    /\ ReadOk /\ lastRead.agent = "a1" /\ lastRead.limit = 101
    /\ Len(ReadPushed) = 102
    /\ Len(lastRead.msgs) = 100
    /\ lastRead.msgs[100].ID = ReadPushed[1]
    /\ lastRead.msgs[100].ID >= 1
    /\ \A p \in Procs : pc[p] = Done

(* An append to the key has pushed and not yet run its LTRIM. *)
TrimPending(k) == \E p \in Procs : pc[p].at = "ltrim" /\ HistoryKey(StoreAgent(p)) = k

(* The ids of the first n entries of a list of ids. *)
Newest(ids, n) == [i \in 1..n |-> ids[i]]

IdsOf(list) == [i \in 1..Len(list) |-> list[i].id]

(* C7: when no append to a key is between its push and its trim, the list   *)
(* under the key holds at most messageHistoryMax entries, and they are the  *)
(* newest ones pushed: what was discarded is older than all that is kept.   *)
C7_HistoryAtMostMax ==
    \A k \in Keys :
        /\ ~TrimPending(k) => Len(hist[k]) <= 100
        /\ Len(hist[k]) <= Len(pushed[k])
        /\ IdsOf(hist[k]) = Newest(pushed[k], Len(hist[k]))

C9_ChronologicalRead ==
    ReadOk =>
        \A i, j \in 1..Len(lastRead.msgs) :
            i < j => lastRead.msgs[i].Timestamp <= lastRead.msgs[j].Timestamp

(* C10: a read fails only when LRANGE does; with limit <= 0 or limit > 100  *)
(* it returns what limit = 100 returns; for every limit it returns the      *)
(* min(effective limit, 100) newest stored entries (all of them when fewer  *)
(* are stored), the oldest of them first.                                   *)
C10_LimitClamped ==
    /\ lastRead.err # Nil => failures >= 1
    /\ ReadOk =>
        LET eff == IF lastRead.limit <= 0 \/ lastRead.limit > 100 THEN 100
                   ELSE lastRead.limit
            n   == Min(eff, Len(ReadList))
        IN  /\ Len(lastRead.msgs) = n
            /\ n <= 100
            /\ \A j \in 1..n :
                /\ lastRead.msgs[j].ID = ReadList[n + 1 - j].id
                /\ lastRead.msgs[j].Timestamp = ReadList[n + 1 - j].timestamp
                /\ lastRead.msgs[j].FromAgent = ReadList[n + 1 - j].from_agent
                /\ lastRead.msgs[j].ToAgent = ReadList[n + 1 - j].to_agent

(* a1's list holds 101 entries and was read with limit 101 (out of range):  *)
(* 100 entries came back.                                                   *)
C10_Witness ==
    /\ ReadOk /\ lastRead.agent = "a1" /\ lastRead.limit = 101
    /\ Len(ReadList) = 101
    /\ Len(lastRead.msgs) = 100

(* ------------------------------ second run ----------------------------- *)

(* C11: a read of an agent under whose key no list is stored (nothing was   *)
(* ever appended, the id never belonged to an agent, or the key has         *)
(* expired) returns the empty sequence and no error.                        *)
C11_EmptyHistoryNoError ==
    (lastRead.agent # Nil /\ ReadList = <<>>) =>
        /\ lastRead.err = Nil
        /\ lastRead.msgs = <<>>

(* a1's history, once appended to, has expired and was read: empty, no      *)
(* error.                                                                   *)
C11_Witness ==
    /\ lastRead.agent = "a1"
    /\ ReadPushed # <<>> /\ ReadList = <<>>
    /\ Seconds(now) >= TickStep
    /\ lastRead.msgs = <<>> /\ lastRead.err = Nil

(* The id that never belonged to an agent was read: empty, no error. *)
C11_NeverExisted ==
    /\ lastRead.agent = "never-registered"
    /\ ReadPushed = <<>>
    /\ lastRead.msgs = <<>> /\ lastRead.err = Nil

(* The entries of a stored list that are the message of worker p. *)
EntriesOf(list, p) ==
    {i \in 1..Len(list) : CanUnmarshal(list[i]) /\ list[i].id = cur[p].ID}

(* The limit a read is made with, as the code clamps it. *)
EffectiveLimit == IF lastRead.limit <= 0 \/ lastRead.limit > 100 THEN 100 ELSE lastRead.limit

(* C12: every stored entry of a message reads back as the Message the send  *)
(* built and returns, field for field (id, from, to, type, payload,         *)
(* correlation id, timestamp, ttl); the entries of the sender and of the    *)
(* recipient and the published data are the same bytes; a read whose limit  *)
(* reaches an entry of the message returns that Message.                    *)
C12_HistoryRoundTrip ==
    \A p \in Procs :
        cur[p] # NoMessage =>
            /\ (Returned(p) /\ ret[p].err = Nil) => ret[p].msg = cur[p]
            /\ \A k \in StoreKeys : \A i \in EntriesOf(hist[k], p) :
                   /\ Unmarshal(hist[k][i]) = cur[p]
                   /\ <<chan[p], hist[k][i]>> \in published
            /\ \A x \in published : x[2].id = cur[p].ID => Unmarshal(x[2]) = cur[p]
            /\ ReadOk =>
                   /\ \A j \in 1..Len(lastRead.msgs) :
                          lastRead.msgs[j].ID = cur[p].ID => lastRead.msgs[j] = cur[p]
                   /\ (\E i \in EntriesOf(ReadList, p) : i <= EffectiveLimit) =>
                          \E j \in 1..Len(lastRead.msgs) : lastRead.msgs[j] = cur[p]

(* A message of a1 to a2 with a correlation id and a ttl, its type set by   *)
(* the handler: returned, stored under both keys, and read back from a1's   *)
(* history equal to what the send returned.                                 *)
C12_Witness ==
    \E p \in Procs :
        /\ Returned(p) /\ ret[p].err = Nil /\ ret[p].msg # NoMessage
        /\ ret[p].msg.CorrelationID = "c1" /\ ret[p].msg.TTL = 60
        /\ ret[p].msg.ToAgent = "a2" /\ ret[p].msg.Type = MessageTypeMessage
        /\ EntriesOf(hist[HistoryKey("a1")], p) # {}
        /\ EntriesOf(hist[HistoryKey("a2")], p) # {}
        /\ ReadOk /\ lastRead.agent = "a1"
        /\ \E j \in 1..Len(lastRead.msgs) : lastRead.msgs[j] = ret[p].msg

(* The positions of the stored list a read looks at (the newest ones, up to *)
(* the effective limit) that hold a Message.                                *)
ParseableRead ==
    {i \in 1..Min(EffectiveLimit, Len(ReadList)) : CanUnmarshal(ReadList[i])}

(* A read returns exactly the entries among the newest `limit` that are     *)
(* Messages, the one stored first coming first; an element that is no       *)
(* Message is passed over and the read goes on.                             *)
SkipsUnparseable ==
    ReadOk =>
        /\ Len(lastRead.msgs) = Cardinality(ParseableRead)
        /\ \A i \in ParseableRead :
               lastRead.msgs[Cardinality({h \in ParseableRead : h >= i})]
                   = Unmarshal(ReadList[i])

(* C13: a read returns exactly the entries among the newest `limit` that    *)
(* are Messages, and returns them by created_at, the earliest first.        *)
C13_ParseableChronological ==
    /\ SkipsUnparseable
    /\ ReadOk =>
           \A i, j \in 1..Len(lastRead.msgs) :
               i < j => lastRead.msgs[i].Timestamp <= lastRead.msgs[j].Timestamp

(* A read of a1 looked at the element that is no Message, with Messages on  *)
(* both sides of it, and returned the two Messages.                         *)
SkipsUnparseable_Reached ==
    /\ ReadOk /\ lastRead.agent = "a1" /\ lastRead.limit = 0
    /\ \E i \in 2..Len(ReadList) - 1 : ~CanUnmarshal(ReadList[i])
    /\ Len(lastRead.msgs) = Len(ReadList) - 1
    /\ Len(lastRead.msgs) >= 3

(* Recipient identifiers the resolution is looked at for: those of the run  *)
(* and some that come close to the broadcast word or to a channel name.     *)
RecipientIds ==
    StoreIds \cup {"Broadcast", "agent:broadcast", "a"}

(* C14: "broadcast" resolves to agent:broadcast, every other recipient r to *)
(* agent:message:r; two different recipients other than "broadcast" never   *)
(* resolve to one channel, and none of them to agent:broadcast; every call  *)
(* resolved, and every message was published on, the channel of its         *)
(* recipient.                                                               *)
C14_ChannelResolution ==
    /\ ResolveChannel("broadcast") = "agent:broadcast"
    /\ \A r \in RecipientIds \ {"broadcast"} :
           /\ ResolveChannel(r) = "agent:message:" \o r
           /\ ResolveChannel(r) # "agent:broadcast"
    /\ \A r1, r2 \in RecipientIds \ {"broadcast"} :
           r1 # r2 => ResolveChannel(r1) # ResolveChannel(r2)
    /\ \A p \in Procs :
           cur[p] # NoMessage =>
               chan[p] = (IF cur[p].ToAgent = "broadcast" THEN "agent:broadcast"
                          ELSE "agent:message:" \o cur[p].ToAgent)
    /\ \A x, y \in published :
           /\ x[1] = "agent:broadcast" <=> x[2].to_agent = "broadcast"
           /\ (x[2].to_agent # "broadcast" /\ y[2].to_agent # "broadcast"
               /\ x[2].to_agent # y[2].to_agent) => x[1] # y[1]

(* Two messages to two different agents have been published, on two         *)
(* different channels.                                                      *)
C14_Witness ==
    \E x, y \in published :
        /\ x[2].to_agent = "a1" /\ x[1] = "agent:message:a1"
        /\ y[2].to_agent = "a2" /\ y[1] = "agent:message:a2"

(* A broadcast message has been published on agent:broadcast. *)
C14_BroadcastReached ==
    \E x \in published : x[2].to_agent = "broadcast" /\ x[1] = "agent:broadcast"

(* C15: a call issues no history command before its PUBLISH has succeeded:  *)
(* PUBLISH is the first command of every call, a history command follows    *)
(* only a PUBLISH that succeeded, and every message of the run that is, or  *)
(* ever was, in a history has been published.                               *)
C15_PublishBeforeHistory ==
    /\ \A p \in Procs :
           /\ \A i \in 1..Len(log[p]) :
                  log[p][i].op # "PUBLISH" =>
                      i > 1 /\ log[p][1].op = "PUBLISH" /\ log[p][1].ok
           /\ pc[p].at \in {"lpush", "ltrim", "expire"} =>
                  /\ log[p] # <<>> /\ log[p][1].op = "PUBLISH" /\ log[p][1].ok
                  /\ <<chan[p], Marshal(cur[p])>> \in published
    /\ \A k \in DOMAIN hist :
           /\ \A i \in 1..Len(hist[k]) :
                  (CanUnmarshal(hist[k][i]) /\ hist[k][i].id >= 1) =>
                      \E x \in published : x[2] = hist[k][i]
           /\ \A i \in 1..Len(pushed[k]) :
                  pushed[k][i] >= 1 => \E x \in published : x[2].id = pushed[k][i]

(* A call is between its LPUSH and its LTRIM: its message is in the         *)
(* sender's history and has been published.                                 *)
C15_Witness ==
    \E p \in Procs :
        /\ pc[p] = [at |-> "ltrim", who |-> "sender"]
        /\ EntriesOf(hist[HistoryKey(cur[p].FromAgent)], p) # {}
        /\ <<chan[p], Marshal(cur[p])>> \in published
        /\ log[p][1] = [op |-> "PUBLISH", key |-> chan[p], ok |-> TRUE]

(* The agents whose history a call appends to. *)
AppendedFor(p) ==
    {cur[p].FromAgent} \cup (IF cur[p].ToAgent = "broadcast" THEN {} ELSE {cur[p].ToAgent})

(* The send of worker p has returned its Message and none of its commands   *)
(* failed.                                                                  *)
SendSucceeded(p) ==
    /\ Returned(p) /\ cur[p] # NoMessage
    /\ ret[p] = [msg |-> cur[p], err |-> Nil]
    /\ AllOk(p)

(* The message of worker p is in every history the call appends to, and the *)
(* read just made of one of them, with a limit that covers the list,        *)
(* returns it.                                                              *)
InHistories(p) ==
    /\ \A a \in AppendedFor(p) : EntriesOf(hist[HistoryKey(a)], p) # {}
    /\ (ReadOk /\ lastRead.agent \in AppendedFor(p) /\ EffectiveLimit >= Len(ReadList)) =>
           \E j \in 1..Len(lastRead.msgs) : lastRead.msgs[j] = cur[p]

(* Less than messageHistoryTTL has passed since the message was built. *)
WithinRetention(p) == Seconds(now) < Seconds(cur[p].Timestamp) + messageHistoryTTL

(* C16: when a send has returned and the store took every command, the      *)
(* message is in the history of the sender and of a recipient that is not   *)
(* "broadcast", and a read of either made right then returns it.            *)
C16_AppendsSynchronous ==
    \A p \in Procs : (SendSucceeded(p) /\ WithinRetention(p)) => InHistories(p)

(* Every LPUSH of a send that succeeded has run before the send returned;   *)
(* while the clock shows the second in which the message was built (no key  *)
(* has expired since) the message is in the histories and is read back.     *)
AppendsBeforeReturn ==
    \A p \in Procs :
        SendSucceeded(p) =>
            /\ \A a \in AppendedFor(p) :
                   \E i \in 1..Len(pushed[HistoryKey(a)]) :
                       pushed[HistoryKey(a)][i] = cur[p].ID
            /\ Seconds(now) = Seconds(cur[p].Timestamp) => InHistories(p)

(* The send of a2 to a1 has just returned and a1, the recipient, was read:  *)
(* the message is the last of the result.                                   *)
AppendsBeforeReturn_Reached ==
    \E p \in Procs :
        /\ SendSucceeded(p) /\ cur[p].FromAgent = "a2" /\ cur[p].ToAgent = "a1"
        /\ Seconds(now) = Seconds(cur[p].Timestamp)
        /\ ReadOk /\ lastRead.agent = "a1" /\ lastRead.limit = 0
        /\ lastRead.msgs[Len(lastRead.msgs)] = cur[p]

(* A call is between the LPUSH and the return of an append to the key. *)
AppendPending(k) ==
    \E p \in Procs : pc[p].at \in {"ltrim", "expire"} /\ HistoryKey(StoreAgent(p)) = k

(* A list that holds entries, no append to it being under way, has an       *)
(* expiry: it is purged when it is left alone.                              *)
RetentionRefreshed ==
    \A k \in DOMAIN hist :
        (hist[k] # <<>> /\ ~AppendPending(k)) => ttl[k] # NoExpiry

(* A message whose appends all succeeded stays in the histories it was      *)
(* appended to for messageHistoryTTL at the least.                          *)
KeptForRetention ==
    \A p \in Procs :
        (SendSucceeded(p) /\ WithinRetention(p)) =>
            \A a \in AppendedFor(p) : EntriesOf(hist[HistoryKey(a)], p) # {}

(* C17: every successful append sets the expiry of the history to           *)
(* messageHistoryTTL from that append: a history left alone for that long   *)
(* is purged, and none is purged sooner after its latest successful append. *)
C17_RetentionFromLatestAppend == RetentionRefreshed /\ KeptForRetention

(* The send of worker p has succeeded and the clock still shows the second  *)
(* in which its message was built: nothing has expired since.               *)
JustSucceeded(p) == SendSucceeded(p) /\ Seconds(now) = Seconds(cur[p].Timestamp)

BuiltVia(way) == {cur[p].ID : p \in {q \in Procs : cur[q] # NoMessage /\ http[q].via = way}}

(* C19 as stated: the Message SendMessage builds has the type "message"     *)
(* when the request it was given has none, and no published or stored       *)
(* message of the run has an empty type.                                    *)
C19_BrokerDefaultsType ==
    /\ \A p \in Procs :
           (cur[p] # NoMessage /\ http[p].via = "direct") =>
               cur[p].Type = (IF http[p].req.Type = "" THEN "message" ELSE http[p].req.Type)
    /\ \A x \in published : x[2].type # ""
    /\ \A k \in DOMAIN hist : \A i \in 1..Len(hist[k]) :
           CanUnmarshal(hist[k][i]) => hist[k][i].type # ""

(* C19, amended: MessageHandler.Send gives a request without a type the     *)
(* type "message" before it calls SendMessage; SendMessage copies the type  *)
(* of the request it is given; so a message published or stored for a       *)
(* request that came through the handler never has an empty type, and one   *)
(* with an empty type comes from a direct call.                             *)
C19_HandlerDefaultsType ==
    /\ \A p \in Procs :
           cur[p] # NoMessage =>
               /\ http[p].via = "handler" =>
                      /\ cur[p].Type = (IF http[p].req.Type = "" THEN "message"
                                        ELSE http[p].req.Type)
                      /\ cur[p].Type # ""
               /\ http[p].via = "direct" => cur[p].Type = http[p].req.Type
    /\ \A x \in published : x[2].type = "" => x[2].id \in BuiltVia("direct")
    /\ \A k \in DOMAIN hist : \A i \in 1..Len(hist[k]) :
           (CanUnmarshal(hist[k][i]) /\ hist[k][i].type = "") =>
               hist[k][i].id \in BuiltVia("direct")

(* A request without a type came through the handler: its message has been  *)
(* published and stored with the type "message".                            *)
C19_Witness ==
    \E p \in Procs :
        /\ SendSucceeded(p) /\ cur[p].Type = "message"
        /\ http[p].via = "handler" /\ http[p].req.Type = ""
        /\ \E x \in published : x[2].id = cur[p].ID /\ x[2].type = "message"
        /\ \E i \in EntriesOf(hist[HistoryKey("a1")], p) :
               hist[HistoryKey("a1")][i].type = "message"

(* A request without a type went to SendMessage directly: its message has   *)
(* been published and stored with an empty type.                            *)
C19_EmptyTypeReached ==
    \E p \in Procs :
        /\ SendSucceeded(p) /\ cur[p].Type = ""
        /\ http[p].via = "direct" /\ http[p].req.Type = ""
        /\ \E x \in published : x[2].id = cur[p].ID /\ x[2].type = ""

(* Worker p was given a request whose to_agent is empty. *)
EmptyRecipient(p) ==
    /\ http[p].via # Nil
    /\ http[p].req # Malformed
    /\ http[p].req.ToAgent = ""

(* Nothing was built, published or stored for the request of worker p. *)
NothingSent(p) ==
    /\ pc[p] = Done
    /\ cur[p] = NoMessage
    /\ log[p] = <<>>

HandlerRejectsEmptyRecipient ==
    \A p \in Procs :
        (EmptyRecipient(p) /\ http[p].via = "handler") =>
            /\ NothingSent(p)
            /\ http[p].rejected \in {"to_agent is required", "registry error"}

HandlerRejectsEmptyRecipient_Reached ==
    \E p \in Procs :
        /\ EmptyRecipient(p) /\ http[p].via = "handler"
        /\ http[p].rejected = "to_agent is required"
        /\ NothingSent(p) /\ published = {}

(* ------------------------------ third run ------------------------------ *)

(* A GetMessageHistory call returns in this step. *)
ReadReturns == lastRead = NoRead /\ lastRead' # NoRead

(* C21: a read whose LRANGE fails returns an error and no messages; a read  *)
(* whose LRANGE answers returns no error, also when nothing is stored: the  *)
(* two responses are never the same.                                        *)
C21_ReadFailureIsError ==
    [][ReadReturns =>
          IF failures' # failures
          THEN lastRead'.err # Nil /\ lastRead'.msgs = <<>>
          ELSE lastRead'.err = Nil
    ]_vars

(* A read of a1 failed while a1's history held entries: error, no messages. *)
C21_Witness ==
    /\ lastRead.agent = "a1" /\ ReadList # <<>>
    /\ lastRead.err = "failed to get message history"
    /\ lastRead.msgs = <<>>
    /\ failures = 1

(* A read of a2 found nothing stored: no messages, no error. *)
C21_NoHistoryReached ==
    /\ lastRead.agent = "a2" /\ ReadList = <<>>
    /\ lastRead.err = Nil /\ lastRead.msgs = <<>>

(* The stored entries of all histories. *)
StoredEntries == UNION {{hist[k][i] : i \in 1..Len(hist[k])} : k \in DOMAIN hist}

(* C22: everything a subscription has been handed was published on its      *)
(* channel after the subscription was made: nothing published before, and   *)
(* nothing that only a history holds, reaches a new subscriber.             *)
C22_NoReplay ==
    \A s \in Subscribers : \A i \in 1..Len(feed[s]) :
        /\ <<subs[s].channel, feed[s][i]>> \in published
        /\ <<subs[s].channel, feed[s][i]>> \notin subs[s].since
        /\ feed[s][i].id >= 1

(* A message to a2 was published before s1's subscription for a2 became     *)
(* active and is in a2's history; s1 has been handed a later message and    *)
(* not that one.                                                            *)
C22_Witness ==
    /\ subs["s1"].state = "active" /\ subs["s1"].agent = "a2"
    /\ \E x \in subs["s1"].since :
           /\ x[1] = "agent:message:a2"
           /\ x[2] \in StoredEntries
           /\ \A i \in 1..Len(feed["s1"]) : feed["s1"][i] # x[2]
    /\ Len(feed["s1"]) = 1

(* The broadcast subscription is active and has been handed nothing, while  *)
(* a1's history holds the broadcast messages of before the run.             *)
C22_EarlierBroadcastsReached ==
    /\ subs["s1"].state = "active" /\ subs["s1"].channel = "agent:broadcast"
    /\ feed["s1"] = <<>>
    /\ \E i \in 1..Len(hist[HistoryKey("a1")]) :
           /\ CanUnmarshal(hist[HistoryKey("a1")][i])
           /\ hist[HistoryKey("a1")][i].to_agent = "broadcast"

(* The positions of subscriber s's feed that hold the data. *)
Copies(s, data) == {i \in 1..Len(feed[s]) : feed[s][i] = data}

(* C23: every subscription that is active has been handed one copy of each  *)
(* message published on its channel since it became active, whatever other  *)
(* subscriptions of the channel there are or were, and whether they have    *)
(* been cancelled.                                                          *)
C23_FanOut ==
    \A s \in Subscribers :
        subs[s].state = "active" =>
            \A x \in published \ subs[s].since :
                x[1] = subs[s].channel => Cardinality(Copies(s, x[2])) = 1

(* No step takes anything out of a feed: a feed only grows at its end. *)
FeedsOnlyGrow ==
    [][\A s \in Subscribers :
          /\ Len(feed'[s]) >= Len(feed[s])
          /\ \A i \in 1..Len(feed[s]) : feed'[s][i] = feed[s][i]]_vars

(* s1 and s2 were both subscribed for a2 when a message was published: each *)
(* has its copy; s2 has cancelled since and s1 has been handed the next     *)
(* message too.                                                             *)
C23_Witness ==
    /\ subs["s1"].state = "active" /\ subs["s1"].channel = "agent:message:a2"
    /\ subs["s2"].state = "closed" /\ subs["s2"].channel = "agent:message:a2"
    /\ Len(feed["s1"]) = 2 /\ Len(feed["s2"]) = 1
    /\ feed["s2"][1] = feed["s1"][1]

(* C24: a step that changes the list under one history key (an append, a   *)
(* trim, an expiry) leaves the list under every other key as it is, the     *)
(* entries of the same message included.                                    *)
C24_HistoriesIndependent ==
    [][\A k1, k2 \in DOMAIN hist :
          (k1 # k2 /\ hist'[k1] # hist[k1]) => hist'[k2] = hist[k2]]_vars

(* The message a1 sent to a2 was appended to both histories; a1's history   *)
(* has expired with the entry in it, a2's history still holds its entry.    *)
C24_Witness ==
    \E p \in Procs :
        /\ cur[p].FromAgent = "a1" /\ cur[p].ToAgent = "a2"
        /\ \E i \in 1..Len(pushed[HistoryKey("a1")]) : pushed[HistoryKey("a1")][i] = cur[p].ID
        /\ EntriesOf(hist[HistoryKey("a1")], p) = {}
        /\ EntriesOf(hist[HistoryKey("a2")], p) # {}

(* The request of worker p came through MessageHandler.Send and was        *)
(* answered with 202 Accepted.                                              *)
Accepted(p) ==
    /\ http[p].via = "handler" /\ http[p].rejected = Nil
    /\ pc[p] = Done /\ ret[p].err = Nil /\ ret[p].msg # NoMessage

(* C25: the channel in the response of the send endpoint is the channel the *)
(* message was published on.                                                *)
C25_ResponseChannelPublished ==
    \A p \in Procs :
        Accepted(p) =>
            /\ SendMessageResponse(p).Channel = chan[p]
            /\ <<SendMessageResponse(p).Channel, Marshal(ret[p].msg)>> \in published

(* For a send to an agent the reported channel is the one published on. *)
ResponseChannelOfDirectSend ==
    \A p \in Procs :
        (Accepted(p) /\ ret[p].msg.ToAgent # "broadcast") =>
            /\ SendMessageResponse(p).Channel = chan[p]
            /\ <<SendMessageResponse(p).Channel, Marshal(ret[p].msg)>> \in published
            /\ SendMessageResponse(p).MessageID = cur[p].ID

ResponseChannelOfDirectSend_Reached ==
    \E p \in Procs :
        /\ Accepted(p) /\ ret[p].msg.ToAgent = "a2"
        /\ SendMessageResponse(p).Channel = "agent:message:a2"
        /\ <<"agent:message:a2", Marshal(ret[p].msg)>> \in published

(* A broadcast was accepted: published on agent:broadcast, reported as      *)
(* agent:message:broadcast, a channel nothing was published on.             *)
ResponseChannelOfBroadcast_Reached ==
    \E p \in Procs :
        /\ Accepted(p) /\ ret[p].msg.ToAgent = "broadcast"
        /\ SendMessageResponse(p).Channel = "agent:message:broadcast"
        /\ chan[p] = "agent:broadcast"
        /\ \A x \in published : x[1] # "agent:message:broadcast"

(* The ids of the entries the histories held before the run. *)
EarlierIds == {EarlierMessage(i).ID : i \in 1..2}

(* C26: two calls never build, return or publish Messages with one id, and  *)
(* no id is that of an earlier message; the id comes from the generator and *)
(* created_at from the clock at construction, the request has no field for  *)
(* either.                                                                  *)
C26_UniqueIds ==
    /\ \A p, q \in Procs :
           (p # q /\ cur[p] # NoMessage /\ cur[q] # NoMessage) => cur[p].ID # cur[q].ID
    /\ \A p \in Procs :
           cur[p] # NoMessage =>
               /\ cur[p].ID \notin EarlierIds
               /\ cur[p].ID >= 1 /\ cur[p].ID < nextId
               /\ cur[p].Timestamp >= 1 /\ cur[p].Timestamp < now
               /\ DOMAIN http[p].req = {"ToAgent", "Type", "Payload", "CorrelationID", "TTL"}
               /\ (Returned(p) /\ ret[p].err = Nil) => ret[p].msg.ID = cur[p].ID
    /\ \A x, y \in published : x[2].id = y[2].id => x = y
    /\ \A s \in Subscribers : \A i, j \in 1..Len(feed[s]) :
           feed[s][i].id = feed[s][j].id => i = j

(* Both workers have sent to a2, one after the other had returned or while  *)
(* it ran; both Messages were returned and published, with two ids.         *)
C26_Witness ==
    /\ \A p \in Procs : Returned(p) /\ ret[p].err = Nil /\ ret[p].msg.ToAgent = "a2"
    /\ ret["w1"].msg.ID # ret["w2"].msg.ID
    /\ Cardinality(published) = 2
    /\ ret["w1"].msg.Timestamp < ret["w2"].msg.Timestamp

(* The LPUSH commands of the call of worker p, in the order issued. *)
Pushes(p) == SelectSeq(log[p], LAMBDA c : c.op = "LPUSH")

(* How often the id was ever pushed under the key. *)
PushedTimes(k, id) == Cardinality({i \in 1..Len(pushed[k]) : pushed[k][i] = id})

(* C27: a returned direct send whose PUBLISH succeeded has attempted the     *)
(* sender's append and then the recipient's, whatever the first one did, and *)
(* under each key the message was pushed as often as an LPUSH of the call    *)
(* on that key succeeded: a failure in one append takes nothing from, and    *)
(* keeps nothing out of, the other.                                          *)
C27_AppendsIndependent ==
    \A p \in Procs :
        (Returned(p) /\ log[p] # <<>> /\ log[p][1].ok /\ cur[p].ToAgent # "broadcast") =>
            /\ Len(Pushes(p)) = 2
            /\ Pushes(p)[1].key = HistoryKey(cur[p].FromAgent)
            /\ Pushes(p)[2].key = HistoryKey(cur[p].ToAgent)
            /\ \A k \in DOMAIN pushed :
                   PushedTimes(k, cur[p].ID) =
                       Cardinality({i \in 1..2 : Pushes(p)[i].key = k /\ Pushes(p)[i].ok})

(* The sender's append of a send a1 -> a2 failed at its LPUSH; the           *)
(* recipient's append ran and a2's history holds the entry.                  *)
C27_Witness ==
    \E p \in Procs :
        /\ Returned(p) /\ cur[p].FromAgent = "a1" /\ cur[p].ToAgent = "a2"
        /\ Len(Pushes(p)) = 2 /\ ~Pushes(p)[1].ok /\ Pushes(p)[2].ok
        /\ Occurrences(hist[HistoryKey("a1")], cur[p].ID) = 0
        /\ Occurrences(hist[HistoryKey("a2")], cur[p].ID) = 1

(* The recipient's append failed at its LPUSH; the sender's entry is there. *)
C27_SenderKeptReached ==
    \E p \in Procs :
        /\ Returned(p) /\ cur[p].FromAgent = "a1" /\ cur[p].ToAgent = "a2"
        /\ Len(Pushes(p)) = 2 /\ Pushes(p)[1].ok /\ ~Pushes(p)[2].ok
        /\ Occurrences(hist[HistoryKey("a1")], cur[p].ID) = 1
        /\ Occurrences(hist[HistoryKey("a2")], cur[p].ID) = 0

(* The storeMessageHistory calls of worker p on the key that returned nil:  *)
(* their EXPIRE, the last command, succeeded.                               *)
CompleteAppends(p, k) ==
    Cardinality({i \in 1..Len(log[p]) :
                    log[p][i].op = "EXPIRE" /\ log[p][i].key = k /\ log[p][i].ok})

(* The commands at which a storeMessageHistory call of worker p on the key  *)
(* returned an error.                                                       *)
FailedAt(p, k) ==
    {log[p][i].op : i \in {j \in 2..Len(log[p]) : log[p][j].key = k /\ ~log[p][j].ok}}

(* C28: the message of a returned send was pushed under a key once for each *)
(* storeMessageHistory call on the key that returned nil, and not at all by *)
(* a call that returned an error.                                           *)
C28_FailedAppendRecordsNothing ==
    \A p \in Procs : \A k \in DOMAIN pushed :
        (Returned(p) /\ cur[p] # NoMessage) =>
            PushedTimes(k, cur[p].ID) = CompleteAppends(p, k)

(* An append that failed at its LPUSH recorded nothing. *)
FailedPushRecordsNothing ==
    \A p \in Procs : \A k \in DOMAIN pushed :
        (Returned(p) /\ cur[p] # NoMessage /\ FailedAt(p, k) \subseteq {"LPUSH"}) =>
            PushedTimes(k, cur[p].ID) = CompleteAppends(p, k)

FailedPushRecordsNothing_Reached ==
    \E p \in Procs :
        /\ Returned(p) /\ cur[p].ToAgent = "a2" /\ cur[p].FromAgent = "a1"
        /\ FailedAt(p, HistoryKey("a2")) = {"LPUSH"}
        /\ PushedTimes(HistoryKey("a2"), cur[p].ID) = 0
        /\ hist[HistoryKey("a2")] = <<>>

(* An append to a2's history failed at its LTRIM or EXPIRE: it returned an  *)
(* error and a2's history holds the entry.                                  *)
FailedAppendStored_Reached ==
    \E p \in Procs :
        /\ Returned(p) /\ cur[p].ToAgent = "a2" /\ cur[p].FromAgent = "a1"
        /\ FailedAt(p, HistoryKey("a2")) \in {{"LTRIM"}, {"EXPIRE"}}
        /\ Len(hist[HistoryKey("a2")]) = 1
        /\ hist[HistoryKey("a2")][1].id = cur[p].ID

(* The keys no storeMessageHistory call is at work on: every append call   *)
(* on them has finished, with nil or with an error.                         *)
QuietKeys ==
    {k \in DOMAIN hist :
        \A p \in Procs :
            pc[p].at \in {"lpush", "ltrim", "expire"} => HistoryKey(StoreAgent(p)) # k}

(* C29: a list that exists under a history key no append is at work on has  *)
(* an expiry.                                                               *)
C29_HistoryHasDeadline ==
    \A k \in QuietKeys : Len(hist[k]) > 0 => ttl[k] # NoExpiry

(* As long as no command has failed, every list that exists under a quiet   *)
(* key has an expiry, and it lies at most messageHistoryTTL ahead.          *)
DeadlineWhenNothingFailed ==
    failures = 0 =>
        \A k \in QuietKeys :
            Len(hist[k]) > 0 =>
                /\ ttl[k] # NoExpiry
                /\ ttl[k] <= Seconds(now) + messageHistoryTTL

DeadlineWhenNothingFailed_Reached ==
    /\ failures = 0
    /\ \A p \in Procs : Returned(p) /\ cur[p] # NoMessage
    /\ HistoryKey("a2") \in QuietKeys
    /\ Len(hist[HistoryKey("a2")]) > 0
    /\ ttl[HistoryKey("a2")] = Seconds(now) + messageHistoryTTL

(* a2's history exists with no expiry after the append to it returned an    *)
(* error; every call has returned.                                          *)
NoDeadline_Reached ==
    /\ \A p \in Procs : Returned(p)
    /\ Len(hist[HistoryKey("a2")]) > 0
    /\ ttl[HistoryKey("a2")] = NoExpiry

(* The messages sent to recipient x that were published while subscriber s *)
(* was active.                                                              *)
SentWhileActive(s, x) ==
    {m[2] : m \in {y \in published \ subs[s].since : y[2].to_agent = x}}

InFeed(s, data) == \E i \in 1..Len(feed[s]) : feed[s][i] = data

(* C30: for every identifier x Subscribe(x) is bound to the channel a send  *)
(* to x publishes on, and an active subscription made by Subscribe(x) has   *)
(* been handed every message sent to x since it became active;              *)
(* SubscribeToBroadcast is bound to the channel of recipient "broadcast".   *)
C30_SubscribeMatchesSend ==
    /\ \A x \in RecipientIds : SubscribeChannel(x) = ResolveChannel(x)
    /\ broadcastChannel = ResolveChannel("broadcast")
    /\ \A s \in Subscribers :
           subs[s].state = "active" =>
               LET x == IF subs[s].agent = Nil THEN "broadcast" ELSE subs[s].agent
               IN  \A data \in SentWhileActive(s, x) : InFeed(s, data)

(* The same for every identifier but "broadcast". *)
SubscribeMatchesSendForAgents ==
    /\ \A x \in RecipientIds \ {"broadcast"} : SubscribeChannel(x) = ResolveChannel(x)
    /\ broadcastChannel = ResolveChannel("broadcast")
    /\ \A s \in Subscribers :
           (subs[s].state = "active" /\ subs[s].agent # "broadcast") =>
               LET x == IF subs[s].agent = Nil THEN "broadcast" ELSE subs[s].agent
               IN  /\ subs[s].channel = ResolveChannel(x)
                   /\ \A data \in SentWhileActive(s, x) : InFeed(s, data)

(* A subscription made by Subscribe("a2") has been handed a message sent to *)
(* a2, one made by SubscribeToBroadcast a broadcast message.                *)
SubscribeMatchesSendForAgents_Reached ==
    /\ subs["s2"].state = "active" /\ subs["s2"].agent = "a2"
    /\ \E i \in 1..Len(feed["s2"]) : feed["s2"][i].to_agent = "a2"
    /\ subs["s1"].state = "active" /\ subs["s1"].agent = Nil
    /\ \E i \in 1..Len(feed["s1"]) : feed["s1"][i].to_agent = "broadcast"

(* A subscription made by Subscribe("broadcast") is active, a message to    *)
(* "broadcast" was published since, and the subscription was handed nothing. *)
SubscribeBroadcastId_Reached ==
    /\ subs["s1"].state = "active" /\ subs["s1"].agent = "broadcast"
    /\ subs["s1"].channel = "agent:message:broadcast"
    /\ SentWhileActive("s1", "broadcast") # {}
    /\ feed["s1"] = <<>>


(* ------------------------------ properties, fourth run ----------------- *)

(* Worker p takes a request through MessageHandler.Send in this step. *)
HandlerServes(p) == pc[p] = Idle /\ pc'[p] # Idle /\ http'[p].via = "handler"

(* Nothing was published for an id that never was in the registry; a        *)
(* completed handler send to an id the registry does not hold (the          *)
(* broadcast name aside) was published on that id's channel and is in that  *)
(* id's history.                                                            *)
SendsOfHandler ==
    /\ \A x \in published : x[2].id >= 1 => x[2].from_agent # "never-registered"
    /\ \A p \in Procs :
        (http[p].via = "handler" /\ SendSucceeded(p)
           /\ cur[p].ToAgent \notin Registered \cup {"broadcast"}) =>
            /\ <<directMessageChannelPrefix \o cur[p].ToAgent, Marshal(cur[p])>> \in published
            /\ EntriesOf(hist[HistoryKey(cur[p].ToAgent)], p) # {}

(* C31: through the send endpoint a request of a sender the registry does   *)
(* not hold ends there (not found, or the registry's error), with nothing   *)
(* published and no history written; a request of a registered sender with  *)
(* a recipient goes to SendMessage whether or not the recipient is          *)
(* registered, is published on the recipient's channel and gets into a      *)
(* history under the recipient's id.                                        *)
C31_OnlySenderChecked ==
    [][/\ \A p \in Procs : HandlerServes(p) =>
            /\ http'[p].from \notin Registered =>
                /\ http'[p].rejected \in {"sender agent not found", "registry error"}
                /\ pc'[p] = Done /\ log'[p] = <<>>
                /\ published' = published /\ hist' = hist /\ pushed' = pushed
            /\ (http'[p].from \in Registered /\ failures' = failures
                  /\ "ToAgent" \in DOMAIN http'[p].req /\ http'[p].req.ToAgent # "") =>
                /\ http'[p].rejected = Nil
                /\ pc'[p] # Done
                /\ cur'[p].ToAgent = http'[p].req.ToAgent
       /\ SendsOfHandler'
    ]_vars

(* a1, registered, has sent to an id the registry does not hold: published  *)
(* on that id's channel, and that id has a history with the message.        *)
C31_Witness ==
    /\ http["w1"].via = "handler" /\ http["w1"].from = "a1"
    /\ SendSucceeded("w1")
    /\ cur["w1"].ToAgent = "never-registered"
    /\ "never-registered" \notin Registered
    /\ <<"agent:message:never-registered", Marshal(cur["w1"])>> \in published
    /\ Len(hist["agent:history:never-registered"]) = 1
    /\ hist["agent:history:never-registered"][1] = Marshal(cur["w1"])

(* A sender the registry does not hold was turned away: nothing published,  *)
(* no history written.                                                      *)
C31_SenderNotFound_Reached ==
    /\ http["w1"].from = "never-registered"
    /\ http["w1"].rejected = "sender agent not found"
    /\ pc["w1"] = Done /\ log["w1"] = <<>>
    /\ published = {}
    /\ hist["agent:history:never-registered"] = <<>>

(* a1 was unregistered before its request came: turned away as well. *)
C31_UnregisteredSender_Reached ==
    /\ http["w1"].from = "a1"
    /\ http["w1"].rejected = "sender agent not found"
    /\ \E r \in RegProcs : rcall[r].op = "Unregister" /\ rcall[r].at = "done"
                            /\ rcall[r].err = Nil

(* The Unregister call of client r has returned without error. *)
Unregistered(r) ==
    rcall[r].op = "Unregister" /\ rcall[r].at = "done" /\ rcall[r].err = Nil

(* C32: once Unregister(id) has returned successfully the agent's data key  *)
(* is absent and Get(id) returns ErrAgentNotFound, whatever Heartbeat or    *)
(* Update ran on the id at the same time.                                   *)
C32_UnregisteredStaysAbsent ==
    \A r \in RegProcs :
        Unregistered(r) =>
            /\ reg.kv[AgentKey(rcall[r].id)] = NoValue
            /\ GetResult(rcall[r].id).err = ErrAgentNotFound

(* What does hold after a successful Unregister: the id is no member of the *)
(* index, and the data key is absent as long as no other call on the id has *)
(* written after the DEL.                                                   *)
UnregisteredLeavesIndex ==
    \A r \in RegProcs :
        Unregistered(r) =>
            /\ rcall[r].id \notin reg.index
            /\ (\A q \in RegProcs \ {r} : rcall[q].at \in {"idle", "get"}
                                          \/ rcall[q].err # Nil) =>
                   reg.kv[AgentKey(rcall[r].id)] = NoValue

UnregisteredLeavesIndex_Reached ==
    /\ Unregistered("r1") /\ rcall["r2"].op = "Heartbeat" /\ rcall["r2"].err # Nil
    /\ reg.kv[AgentKey("a1")] = NoValue

(* Unregister(a1) and Heartbeat(a1) have both returned without error, and   *)
(* Get(a1) returns the agent.                                               *)
C32_HeartbeatRestores_Reached ==
    /\ Unregistered("r1") /\ rcall["r1"].id = "a1"
    /\ rcall["r2"].op = "Heartbeat" /\ rcall["r2"].at = "done" /\ rcall["r2"].err = Nil
    /\ GetResult("a1").err = Nil /\ GetResult("a1").agent.ID = "a1"
    /\ "a1" \notin reg.index

(* The same with Update in the place of Heartbeat. *)
C32_UpdateRestores_Reached ==
    /\ Unregistered("r1") /\ rcall["r1"].id = "a1"
    /\ rcall["r2"].op = "Update" /\ rcall["r2"].at = "done" /\ rcall["r2"].err = Nil
    /\ GetResult("a1").err = Nil /\ GetResult("a1").agent.Status = StatusBusy

(* The Update call of client r has returned without error. *)
Updated(r) == rcall[r].op = "Update" /\ rcall[r].at = "done" /\ rcall[r].err = Nil

(* The fields the request of client r's Update sets are the stored ones. *)
Reflects(agent, req) ==
    /\ req.Name # "" => agent.Name = req.Name
    /\ req.Status # "" => agent.Status = req.Status

(* The other client's call is a Heartbeat (made, running or returned) or    *)
(* has not been made.                                                       *)
OnlyHeartbeatBeside(r) ==
    \A q \in RegProcs \ {r} : rcall[q].op \in {Nil, "Heartbeat"}

(* C33: after Update(id, fields) has returned successfully, with no other   *)
(* call on the id than a Heartbeat beside it, the stored agent has the      *)
(* fields of the update.                                                    *)
C33_UpdateNotLost ==
    \A r \in RegProcs :
        (Updated(r) /\ OnlyHeartbeatBeside(r)) =>
            /\ GetResult(rcall[r].id).err = Nil
            /\ Reflects(GetResult(rcall[r].id).agent, rcall[r].req)

(* What does hold: the update is stored when the Heartbeat beside it is not *)
(* between its read and its write of the agent, or has not returned well.   *)
UpdateKeptWithoutOverlap ==
    \A r \in RegProcs :
        (Updated(r) /\ OnlyHeartbeatBeside(r)
           /\ \A q \in RegProcs \ {r} : rcall[q].at \in {"idle", "get", "heartbeat.set",
                                                          "heartbeat.get"}) =>
            /\ GetResult(rcall[r].id).err = Nil
            /\ Reflects(GetResult(rcall[r].id).agent, rcall[r].req)

UpdateKeptWithoutOverlap_Reached ==
    /\ Updated("r1") /\ rcall["r2"].op = "Heartbeat" /\ rcall["r2"].at = "heartbeat.get"
    /\ GetResult("a1").agent.Name = "n1"

(* Update(a1, name n1) and Heartbeat(a1) have both returned without error;  *)
(* the stored agent has the name it had before the update, and the          *)
(* heartbeat's last_seen.                                                   *)
C33_HeartbeatOverwrites_Reached ==
    /\ Updated("r1") /\ rcall["r1"].req.Name = "n1"
    /\ rcall["r2"].op = "Heartbeat" /\ rcall["r2"].at = "done" /\ rcall["r2"].err = Nil
    /\ failures = 0
    /\ GetResult("a1").agent.Name = "n0"
    /\ GetResult("a1").agent.LastSeen >= 1

(* No Register and no Unregister call is in progress. *)
NoneInProgress ==
    \A r \in RegProcs : rcall[r].op \in {"Register", "Unregister"} => rcall[r].at = "done"

(* The agents Get returns. *)
Gettable == {GetResult(id).agent : id \in {i \in RegIds : GetResult(i).err = Nil}}

(* C34: whenever no Register or Unregister is in progress, also after one   *)
(* that failed at a step, an id is in the index exactly when its data key   *)
(* exists, and List returns exactly the agents Get returns.                 *)
C34_IndexMatchesData ==
    NoneInProgress =>
        /\ \A id \in RegIds : id \in reg.index <=> reg.kv[AgentKey(id)] # NoValue
        /\ List = Gettable

(* What does hold, in every state: every id of the index has its data key,  *)
(* so List returns an agent for every member of the index, and every agent  *)
(* List returns is one Get returns.                                         *)
IndexedHaveData ==
    /\ \A id \in reg.index : reg.kv[AgentKey(id)] # NoValue
    /\ List \subseteq Gettable
    /\ Cardinality(List) = Cardinality(reg.index)

IndexedHaveData_Reached ==
    /\ rcall["r1"].op = "Register" /\ rcall["r1"].at = "done" /\ rcall["r1"].err = Nil
    /\ "a3" \in reg.index /\ GetResult("a3").agent.Name = "n3"
    /\ Cardinality(List) = 3

(* Register's SADD failed: the new agent's data key exists, Get returns the *)
(* agent, and it is in no index and List does not return it.                *)
C34_RegisterFailed_Reached ==
    /\ rcall["r1"].op = "Register" /\ rcall["r1"].err = "failed at sadd"
    /\ NoneInProgress
    /\ GetResult("a3").err = Nil
    /\ "a3" \notin reg.index
    /\ GetResult("a3").agent \notin List

(* Unregister's DEL failed: out of the index, the data key still there. *)
C34_UnregisterFailed_Reached ==
    /\ rcall["r1"].op = "Unregister" /\ rcall["r1"].err = "failed at del"
    /\ rcall["r2"].at = "idle"
    /\ GetResult("a1").err = Nil
    /\ "a1" \notin reg.index

(* No command failed: a Heartbeat beside the Unregister wrote the data key  *)
(* again.                                                                   *)
C34_NoFailure_Reached ==
    /\ failures = 0 /\ NoneInProgress
    /\ \A r \in RegProcs : rcall[r].at = "done"
    /\ GetResult("a1").err = Nil
    /\ "a1" \notin reg.index

====
